---- MODULE Spec2Model ----
(***************************************************************************)
(* The YouTube companion dashboard backend: AuthService (handleCallback,   *)
(* getValidAccessToken, refreshAccessToken), the encryption codec, the     *)
(* YouTube error classifier, the session tokens and the authenticate       *)
(* middleware, and the provider operations of YouTubeService and           *)
(* CommentService.  Every await of the source is a suspension point: a     *)
(* request is a task whose pc names the call it is suspended on.           *)
(*   Spec, FairSpec  token calls, getVideoDetails and handleCallback       *)
(*   CrossSpec       token calls and handleCallback of two users           *)
(*   OpsSpec         the provider operations, one at a time                *)
(*   SessionSpec     requests through authenticate                         *)
(*   FunctionSpec    encrypt, decrypt and the classifier applied to inputs *)
(*   LogoutSpec      requests through authenticate into logout             *)
(*   FaultSpec       the service calls with database writes that fail      *)
(*   ClientSpec      the browser's auth store and its API calls            *)
(***************************************************************************)
EXTENDS Integers, Sequences, FiniteSets, TLC

(* ------------------------------ bounds -------------------------------- *)
MaxCalls == 2
MaxNow == 1

(* the users, the concurrent requests, the initialisation vectors of encrypt *)
Users == {1}
Tasks == {1, 2}
Nonces == {1}

(* --------------------------- program constants ------------------------ *)
BUFFER_MS == 5 * 60 * 1000
HOUR_MS == 3600000
Radix == 16
COLON == Radix

None == [none |-> TRUE]

(* A secret string is a sequence of characters; the empty string is <<>>. *)
(* The secrets the provider hands out name the user they were issued to.  *)
EmptyString == << >>
GrantAccessSecrets(u) == {<<u, 1>>}
GrantRefreshSecrets(u) == {<<u, 3>>}
AccessSecrets(u) == {<<u, 1>>, <<u, 2>>}
RefreshSecrets(u) == {<<u, 4>>}
Owner(secret) == secret[1]

(* ------------------------------ codec --------------------------------- *)
RECURSIVE SumSeq(_)
SumSeq(s) == IF s = << >> THEN 0 ELSE Head(s) + SumSeq(Tail(s))

CipherUpdate(text, iv) == [i \in 1..Len(text) |-> (text[i] + iv + i) % Radix]
DecipherUpdate(data, iv) == [i \in 1..Len(data) |-> (data[i] + 2 * Radix - iv - i) % Radix]
GetAuthTag(data, iv) == (iv + SumSeq(data) + 1) % Radix

(* encrypt: `${iv hex}:${authTag hex}:${encrypted hex}` under a fresh iv *)
encrypt(text, iv) ==
    <<iv, COLON, GetAuthTag(CipherUpdate(text, iv), iv), COLON>> \o CipherUpdate(text, iv)

(* String.prototype.split(':') *)
RECURSIVE SplitAcc(_, _, _)
SplitAcc(s, cur, acc) ==
    IF s = << >> THEN Append(acc, cur)
    ELSE IF Head(s) = COLON THEN SplitAcc(Tail(s), << >>, Append(acc, cur))
    ELSE SplitAcc(Tail(s), Append(cur, Head(s)), acc)
Split(s) == SplitAcc(s, << >>, << >>)

Thrown(kind, status, reason, message) ==
    [ok |-> FALSE, kind |-> kind, status |-> status, reason |-> reason, message |-> message]
Returned(v) == [ok |-> TRUE, value |-> v]

(* decrypt: destructures the first three parts, rejects a missing or empty *)
(* part, then authenticates and deciphers.                                 *)
decrypt(encryptedText) ==
    LET parts == Split(encryptedText)
        ivHex == IF Len(parts) >= 1 THEN parts[1] ELSE << >>
        authTagHex == IF Len(parts) >= 2 THEN parts[2] ELSE << >>
        encrypted == IF Len(parts) >= 3 THEN parts[3] ELSE << >>
    IN  IF ivHex = << >> \/ authTagHex = << >> \/ encrypted = << >>
        THEN Thrown("Error", 0, "", "Invalid encrypted text format")
        ELSE IF authTagHex # <<GetAuthTag(encrypted, ivHex[1])>>
        THEN Thrown("Error", 0, "", "Unsupported state or unable to authenticate data")
        ELSE Returned(DecipherUpdate(encrypted, ivHex[1]))


(* --------------------------- error classifier ------------------------- *)
ApiError(statusCode, message) == Thrown("ApiError", statusCode, "", message)

(* Mutant of handleYouTubeQuotaError: every 403 that is not a quota error *)
(* is reported as a permission error, whatever its reason                *)
handleYouTubeQuotaErrorAnyReason(error) ==
    IF error.kind = "GaxiosError" /\ error.status = 403 /\ error.reason = "quotaExceeded"
    THEN ApiError(429, "YouTube API quota exceeded. Please try again later.")
    ELSE IF error.kind = "GaxiosError" /\ error.status = 403
    THEN ApiError(403, "You do not have permission to perform this action.")
    ELSE ApiError(500, "An error occurred with the YouTube API")

(* handleYouTubeQuotaError: error?.response?.status and the first reason *)
handleYouTubeQuotaError(error) ==
    IF error.kind = "GaxiosError" /\ error.status = 403 /\ error.reason = "quotaExceeded"
    THEN ApiError(429, "YouTube API quota exceeded. Please try again later.")
    ELSE IF error.kind = "GaxiosError" /\ error.status = 403 /\ error.reason = "forbidden"
    THEN ApiError(403, "You do not have permission to perform this action.")
    ELSE ApiError(500, "An error occurred with the YouTube API")

(* The errors a provider call rejects with: HTTP status and first reason. *)
ProviderErrors ==
    { Thrown("GaxiosError", 403, "quotaExceeded", "quota"),
      Thrown("GaxiosError", 403, "forbidden", "forbidden"),
      Thrown("GaxiosError", 401, "authError", "Invalid Credentials") }
UserinfoErrors == { Thrown("GaxiosError", 401, "authError", "Invalid Credentials") }
TokenEndpointErrors == { Thrown("GaxiosError", 400, "invalid_grant", "invalid_grant") }

(* ------------------------------- state -------------------------------- *)
VARIABLES
    now,               \* Date.now(), in milliseconds
    calls,             \* requests started so far
    oAuthToken,        \* prisma.oAuthToken: userId -> row or None
    user,              \* prisma.user: googleId -> row or None (user.id = googleId)
    video,             \* prisma.video: users with a cached row of the video
    eventLog,          \* prisma.eventLog: number of rows per <<eventType, userId>>
    oauth2Credentials, \* credentials of the process-wide oauth2Client
    task,              \* the requests in flight
    sealing,           \* an application of encrypt and decrypt: text, envelope, result
    classifying,       \* an application of handleYouTubeQuotaError: error, result
    note,              \* prisma.note: number of rows per user
    useAuthStore,      \* the state of the browser's zustand auth store
    localStorage,      \* localStorage.getItem('token') in the browser, or None
    requests,          \* the API calls the browser has sent since the page loaded
    navigating,        \* window.location.href was assigned: the page is about to reload
    location,          \* the route the browser shows
    sent               \* API calls the browser has sent in all

clientVars == <<useAuthStore, localStorage, requests, navigating, location, sent>>
vars == <<now, calls, oAuthToken, user, video, eventLog, oauth2Credentials, task,
          sealing, classifying, note, clientVars>>
coreVars == <<now, calls, oAuthToken, user, video, eventLog, oauth2Credentials, task,
              note, clientVars>>
pureVars == <<sealing, classifying, note, clientVars>>
serverVars == <<now, calls, oAuthToken, user, video, eventLog, oauth2Credentials, task,
                sealing, classifying, note>>

(* No browser is attached *)
NoClient ==
    /\ useAuthStore = None
    /\ localStorage = None
    /\ requests = {}
    /\ navigating = FALSE
    /\ location = "none"
    /\ sent = 0

EventTypes ==
    {"login", "logout", "fetch_video", "update_video_metadata",
     "comment_added", "reply_added", "comment_deleted",
     "note_created", "note_updated", "note_deleted"}
DEFAULT_SCOPE == "YOUTUBE_SCOPES"
ProviderScopes == {"granted"}
GrantExpiryOffsets == {BUFFER_MS}
RefreshExpiryOffsets == {BUFFER_MS - 1}

IdleTask ==
    [pc |-> "idle", op |-> "none", userId |-> 0, tokens |-> None, data |-> None,
     accessToken |-> EmptyString, grant |-> 0, googleId |-> 0, auth |-> 0,
     channelId |-> 0, arrivedDuring |-> 0, outcome |-> None,
     route |-> "none", token |-> None, decoded |-> None, reqUser |-> None, author |-> 0,
     inner |-> FALSE, logged |-> 0, revoked |-> FALSE]

(* The operations of YouTubeService and CommentService: those whose catch *)
(* rethrows an ApiError as is, and those whose catch classifies every     *)
(* error                                                                  *)
RethrowingOps == {"getVideoDetails", "updateVideoMetadata", "deleteComment"}
ClassifyingOps == {"getUserVideos", "getComments", "addComment", "replyToComment"}
ProviderOps == RethrowingOps \cup ClassifyingOps

(* The provider call an operation awaits once getClient has returned; the *)
(* getVideoDetails that ends updateVideoMetadata starts over              *)
FirstCall(tk) ==
    IF tk.op = "getVideoDetails" \/ tk.inner THEN "videosList"
    ELSE IF tk.op = "updateVideoMetadata" THEN "currentVideo"
    ELSE IF tk.op = "getUserVideos" THEN "uploadsChannel"
    ELSE IF tk.op = "getComments" THEN "commentsChannel"
    ELSE IF tk.op = "addComment" THEN "commentThreadsInsert"
    ELSE IF tk.op = "replyToComment" THEN "commentsInsert"
    ELSE "commentsList"

(* ------------------------ AuthService helpers -------------------------- *)
(* Mutant of IsStale: the operands of the subtraction swapped *)
IsStaleSwapped(expiresAt, nowMs) == nowMs - expiresAt < BUFFER_MS

(* expiresAt.getTime() - now.getTime() < 5 * 60 * 1000 *)
IsStale(expiresAt, nowMs) == expiresAt - nowMs < BUFFER_MS

(* expiry_date ? new Date(expiry_date) : new Date(Date.now() + 3600000);  *)
(* an absent expiry_date is 0                                              *)
ExpiresAt(expiry_date, nowMs) == IF expiry_date # 0 THEN expiry_date ELSE nowMs + HOUR_MS

(* Mutant of RefreshData: the provider's expiry is ignored *)
RefreshDataDefaultExpiry(credentials, nowMs, ivA, ivR) ==
    [accessToken |-> encrypt(credentials.access_token, ivA),
     accessTokenExpiresAt |-> nowMs + HOUR_MS,
     setRefreshToken |-> credentials.refresh_token # EmptyString,
     refreshToken |-> IF credentials.refresh_token # EmptyString
                      THEN encrypt(credentials.refresh_token, ivR) ELSE EmptyString]

(* data of prisma.oAuthToken.update in refreshAccessToken: the refreshToken *)
(* key is spread in only when the response carries a refresh_token         *)
RefreshData(credentials, nowMs, ivA, ivR) ==
    [accessToken |-> encrypt(credentials.access_token, ivA),
     accessTokenExpiresAt |-> ExpiresAt(credentials.expiry_date, nowMs),
     setRefreshToken |-> credentials.refresh_token # EmptyString,
     refreshToken |-> IF credentials.refresh_token # EmptyString
                      THEN encrypt(credentials.refresh_token, ivR) ELSE EmptyString]

(* Mutant of UpdateRow: refreshToken is written unconditionally *)
UpdateRowOverwritesRefresh(row, data) ==
    [row EXCEPT !.accessToken = data.accessToken,
                !.accessTokenExpiresAt = data.accessTokenExpiresAt,
                !.refreshToken = data.refreshToken]

(* prisma update: the keys present in data replace the row's, the others stay *)
UpdateRow(row, data) ==
    [row EXCEPT !.accessToken = data.accessToken,
                !.accessTokenExpiresAt = data.accessTokenExpiresAt,
                !.refreshToken = IF data.setRefreshToken THEN data.refreshToken ELSE @]

(* An error thrown out of the running operation: the catch of a provider  *)
(* operation rethrows an ApiError as is where it tests for one, and passes *)
(* anything else through the classifier.                                   *)
Throw(tk, error) ==
    [IdleTask EXCEPT !.pc = "failed", !.op = tk.op, !.userId = tk.userId,
        !.outcome = IF \/ tk.op \in RethrowingOps /\ error.kind # "ApiError"
                       \/ tk.op \in ClassifyingOps
                    THEN handleYouTubeQuotaError(error) ELSE error]

Return(tk, value) ==
    [IdleTask EXCEPT !.pc = "done", !.op = tk.op, !.userId = tk.userId,
        !.outcome = Returned(value)]

(* getValidAccessToken returns: to its caller, or into getClient of a     *)
(* provider operation, which builds the client and awaits its first call  *)
ReturnAccessToken(tk, secret) ==
    IF tk.op \in ProviderOps
    THEN [tk EXCEPT !.pc = FirstCall(tk), !.accessToken = secret, !.tokens = None, !.data = None]
    ELSE Return(tk, secret)

(* --------------------- getValidAccessToken / refresh -------------------- *)
(* History, not program state: a request in whose refresh exchange for u   *)
(* is in flight right now, or 0                                            *)
RefreshInFlight(u) ==
    IF \E s \in Tasks : task[s].pc = "refreshAccessToken" /\ task[s].userId = u
    THEN CHOOSE s \in Tasks : task[s].pc = "refreshAccessToken" /\ task[s].userId = u
    ELSE 0

(* A request calls getValidAccessToken(userId), directly or through         *)
(* YouTubeService.getClient; it suspends on prisma.oAuthToken.findUnique.   *)
Call(t, u, op) ==
    /\ task[t].pc = "idle"
    /\ calls < MaxCalls
    /\ calls' = calls + 1
    /\ task' = [task EXCEPT ![t] = [IdleTask EXCEPT !.pc = "findUnique", !.op = op, !.userId = u,
                                                    !.arrivedDuring = RefreshInFlight(u)]]
    /\ UNCHANGED <<pureVars, now, oAuthToken, user, video, eventLog, oauth2Credentials>>

(* findUnique resolves with no row *)
FindUniqueNone(t) ==
    /\ task[t].pc = "findUnique"
    /\ oAuthToken[task[t].userId] = None
    /\ task' = [task EXCEPT ![t] = Throw(@, Thrown("Error", 0, "", "No OAuth token found for user"))]
    /\ UNCHANGED <<pureVars, now, calls, oAuthToken, user, video, eventLog, oauth2Credentials>>

(* findUnique resolves with a row that is not stale: decrypt and return *)
FindUniqueFresh(t) ==
    /\ task[t].pc = "findUnique"
    /\ oAuthToken[task[t].userId] # None
    /\ ~IsStale(oAuthToken[task[t].userId].accessTokenExpiresAt, now)
    /\ LET r == decrypt(oAuthToken[task[t].userId].accessToken)
       IN  task' = [task EXCEPT ![t] = IF r.ok THEN ReturnAccessToken(@, r.value) ELSE Throw(@, r)]
    /\ UNCHANGED <<pureVars, now, calls, oAuthToken, user, video, eventLog, oauth2Credentials>>

(* Mutant of FindUniqueStale: an in-flight marker (the refresh token left *)
(* on the shared client) that is never cleared keeps later refreshes out *)
FindUniqueStaleHeldKey(t) ==
    /\ task[t].pc = "findUnique"
    /\ oAuthToken[task[t].userId] # None
    /\ IsStale(oAuthToken[task[t].userId].accessTokenExpiresAt, now)
    /\ oauth2Credentials = None
    /\ LET r == decrypt(oAuthToken[task[t].userId].refreshToken)
       IN  IF r.ok
           THEN /\ oauth2Credentials' = [access_token |-> EmptyString, refresh_token |-> r.value]
                /\ task' = [task EXCEPT ![t] = [@ EXCEPT !.pc = "refreshAccessToken"]]
           ELSE /\ task' = [task EXCEPT ![t] = Throw(@, r)]
                /\ UNCHANGED oauth2Credentials
    /\ UNCHANGED <<pureVars, now, calls, oAuthToken, user, video, eventLog>>

(* findUnique resolves with a stale row: refreshAccessToken decrypts the    *)
(* refresh token, sets it on the shared client and awaits the exchange      *)
FindUniqueStale(t) ==
    /\ task[t].pc = "findUnique"
    /\ oAuthToken[task[t].userId] # None
    /\ IsStale(oAuthToken[task[t].userId].accessTokenExpiresAt, now)
    /\ LET r == decrypt(oAuthToken[task[t].userId].refreshToken)
       IN  IF r.ok
           THEN /\ oauth2Credentials' = [access_token |-> EmptyString, refresh_token |-> r.value]
                /\ task' = [task EXCEPT ![t] = [@ EXCEPT !.pc = "refreshAccessToken"]]
           ELSE /\ task' = [task EXCEPT ![t] = Throw(@, r)]
                /\ UNCHANGED oauth2Credentials
    /\ UNCHANGED <<pureVars, now, calls, oAuthToken, user, video, eventLog>>

(* oauth2Client.refreshAccessToken() rejects *)
RefreshRejects(t) ==
    /\ task[t].pc = "refreshAccessToken"
    /\ \E e \in TokenEndpointErrors : task' = [task EXCEPT ![t] = Throw(@, e)]
    /\ UNCHANGED <<pureVars, now, calls, oAuthToken, user, video, eventLog, oauth2Credentials>>

(* The credentials a refresh exchange of user u can resolve with *)
RefreshResponses(u, nowMs) ==
    [access_token : {EmptyString} \cup AccessSecrets(u),
     refresh_token : {EmptyString} \cup RefreshSecrets(u),
     expiry_date : {0} \cup {nowMs + d : d \in RefreshExpiryOffsets}]

(* Mutant of RefreshResolves: the row is written before access_token is *)
(* checked                                                              *)
RefreshResolvesWritesFirst(t) ==
    /\ task[t].pc = "refreshAccessToken"
    /\ oAuthToken[task[t].userId] # None
    /\ \E credentials \in RefreshResponses(task[t].userId, now), ivA \in Nonces, ivR \in Nonces :
         /\ oAuthToken' = [oAuthToken EXCEPT ![task[t].userId] =
                              UpdateRow(@, RefreshData(credentials, now, ivA, ivR))]
         /\ task' = [task EXCEPT ![t] =
               IF credentials.access_token = EmptyString
               THEN Throw(@, Thrown("Error", 0, "", "Failed to refresh access token"))
               ELSE ReturnAccessToken(@, credentials.access_token)]
    /\ UNCHANGED <<pureVars, now, calls, user, video, eventLog, oauth2Credentials>>

(* oauth2Client.refreshAccessToken() resolves: without access_token the     *)
(* call throws; otherwise the update data is built and the write awaited    *)
RefreshResolves(t) ==
    /\ task[t].pc = "refreshAccessToken"
    /\ \E credentials \in RefreshResponses(task[t].userId, now), ivA \in Nonces, ivR \in Nonces :
         task' = [task EXCEPT ![t] =
            IF credentials.access_token = EmptyString
            THEN Throw(@, Thrown("Error", 0, "", "Failed to refresh access token"))
            ELSE [@ EXCEPT !.pc = "update", !.tokens = credentials,
                           !.data = RefreshData(credentials, now, ivA, ivR)]]
    /\ UNCHANGED <<pureVars, now, calls, oAuthToken, user, video, eventLog, oauth2Credentials>>

(* prisma.oAuthToken.update resolves: the row is written and the new access *)
(* token returned                                                           *)
UpdateResolves(t) ==
    /\ task[t].pc = "update"
    /\ oAuthToken[task[t].userId] # None
    /\ oAuthToken' = [oAuthToken EXCEPT ![task[t].userId] = UpdateRow(@, task[t].data)]
    /\ task' = [task EXCEPT ![t] = ReturnAccessToken(@, task[t].tokens.access_token)]
    /\ UNCHANGED <<pureVars, now, calls, user, video, eventLog, oauth2Credentials>>

(* --------------------- YouTubeService.getVideoDetails ------------------- *)
(* EventService.log: prisma.eventLog.create *)
LogEvent(eventType, userId) ==
    eventLog' = [eventLog EXCEPT ![eventType][userId] = @ + 1]

(* youtube.videos.list rejects: the catch classifies the provider error *)
VideosListRejects(t) ==
    /\ task[t].pc = "videosList"
    /\ \E e \in ProviderErrors : task' = [task EXCEPT ![t] = Throw(@, e)]
    /\ UNCHANGED <<pureVars, now, calls, oAuthToken, user, video, eventLog, oauth2Credentials>>

(* youtube.videos.list resolves: no item throws ApiError(404), an item is *)
(* upserted into the cache                                                *)
VideosListResolves(t) ==
    /\ task[t].pc = "videosList"
    /\ \E found \in BOOLEAN :
         task' = [task EXCEPT ![t] =
            IF found THEN [@ EXCEPT !.pc = "videoUpsert"]
            ELSE Throw(@, ApiError(404, "Video not found or you do not have access to it"))]
    /\ UNCHANGED <<pureVars, now, calls, oAuthToken, user, video, eventLog, oauth2Credentials>>

VideoUpsertResolves(t) ==
    /\ task[t].pc = "videoUpsert"
    /\ video' = [video EXCEPT ![task[t].userId] = TRUE]
    /\ task' = [task EXCEPT ![t] = [@ EXCEPT !.pc = "logFetch"]]
    /\ UNCHANGED <<pureVars, now, calls, oAuthToken, user, eventLog, oauth2Credentials>>

(* EventService.log resolves and the details are returned *)
LogFetchResolves(t) ==
    /\ task[t].pc = "logFetch"
    /\ LogEvent("fetch_video", task[t].userId)
    /\ task' = [task EXCEPT ![t] = Return(@, <<task[t].userId>>)]
    /\ UNCHANGED <<pureVars, now, calls, oAuthToken, user, video, oauth2Credentials>>

(* ----------------------- AuthService.handleCallback --------------------- *)
(* The tokens the code-for-token exchange of user g's grant resolves with *)
TokenResponses(g, nowMs) ==
    [access_token : GrantAccessSecrets(g),
     refresh_token : {EmptyString} \cup GrantRefreshSecrets(g),
     expiry_date : {0} \cup {nowMs + d : d \in GrantExpiryOffsets},
     scope : ProviderScopes]

(* The user whose resources a call through the shared client reaches: the *)
(* holder of the client's access token, or of its refresh token when the  *)
(* client has no access token                                             *)
ClientIdentity(credentials) ==
    IF credentials.access_token # EmptyString THEN Owner(credentials.access_token)
    ELSE Owner(credentials.refresh_token)

CallHandleCallback(t, code) ==
    /\ task[t].pc = "idle"
    /\ calls < MaxCalls
    /\ calls' = calls + 1
    /\ task' = [task EXCEPT ![t] = [IdleTask EXCEPT !.pc = "getToken", !.op = "handleCallback", !.grant = code]]
    /\ UNCHANGED <<pureVars, now, oAuthToken, user, video, eventLog, oauth2Credentials>>

GetTokenRejects(t) ==
    /\ task[t].pc = "getToken"
    /\ \E e \in TokenEndpointErrors : task' = [task EXCEPT ![t] = Throw(@, e)]
    /\ UNCHANGED <<pureVars, now, calls, oAuthToken, user, video, eventLog, oauth2Credentials>>

(* getToken resolves: setCredentials(tokens) on the shared client, then   *)
(* userinfo.get() is issued through it                                    *)
GetTokenResolves(t) ==
    /\ task[t].pc = "getToken"
    /\ \E tokens \in TokenResponses(task[t].grant, now) :
         /\ oauth2Credentials' = [access_token |-> tokens.access_token,
                                  refresh_token |-> tokens.refresh_token]
         /\ task' = [task EXCEPT ![t] = [@ EXCEPT !.pc = "userinfo", !.tokens = tokens,
                                                  !.auth = Owner(tokens.access_token)]]
    /\ UNCHANGED <<pureVars, now, calls, oAuthToken, user, video, eventLog>>

UserinfoRejects(t) ==
    /\ task[t].pc = "userinfo"
    /\ \E e \in UserinfoErrors : task' = [task EXCEPT ![t] = Throw(@, e)]
    /\ UNCHANGED <<pureVars, now, calls, oAuthToken, user, video, eventLog, oauth2Credentials>>

(* Mutant of UserinfoResolves: the user row is created before the       *)
(* identity response is checked                                         *)
UserinfoResolvesUpsertsFirst(t) ==
    /\ task[t].pc = "userinfo"
    /\ user' = [user EXCEPT ![task[t].auth] = [channelId |-> 0]]
    /\ \E complete \in BOOLEAN :
         task' = [task EXCEPT ![t] =
            IF complete
            THEN [@ EXCEPT !.pc = "channels", !.googleId = task[t].auth,
                           !.auth = ClientIdentity(oauth2Credentials)]
            ELSE Throw(@, Thrown("Error", 0, "", "Failed to get user information from Google"))]
    /\ UNCHANGED <<pureVars, now, calls, oAuthToken, video, eventLog, oauth2Credentials>>

(* userinfo.get() resolves: without id or email the callback throws;      *)
(* otherwise channels.list is issued through the shared client as it is   *)
(* now                                                                    *)
UserinfoResolves(t) ==
    /\ task[t].pc = "userinfo"
    /\ \E complete \in BOOLEAN :
         task' = [task EXCEPT ![t] =
            IF complete
            THEN [@ EXCEPT !.pc = "channels", !.googleId = task[t].auth,
                           !.auth = ClientIdentity(oauth2Credentials)]
            ELSE Throw(@, Thrown("Error", 0, "", "Failed to get user information from Google"))]
    /\ UNCHANGED <<pureVars, now, calls, oAuthToken, user, video, eventLog, oauth2Credentials>>

(* channels.list settles: the first item's id, or null when there is none *)
(* or the call failed (caught); then the user upsert is awaited           *)
ChannelsSettles(t) ==
    /\ task[t].pc = "channels"
    /\ \E found \in BOOLEAN :
         task' = [task EXCEPT ![t] = [@ EXCEPT !.pc = "userUpsert", !.auth = 0,
                                               !.channelId = IF found THEN task[t].auth ELSE 0]]
    /\ UNCHANGED <<pureVars, now, calls, oAuthToken, user, video, eventLog, oauth2Credentials>>

(* update and create data of prisma.oAuthToken.upsert in handleCallback *)
CallbackData(tokenData, nowMs, ivA, ivR) ==
    [accessToken |-> encrypt(tokenData.access_token, ivA),
     accessTokenExpiresAt |-> ExpiresAt(tokenData.expiry_date, nowMs),
     setRefreshToken |-> tokenData.refresh_token # EmptyString,
     refreshToken |-> encrypt(tokenData.refresh_token, ivR),
     scope |-> IF tokenData.scope # "" THEN tokenData.scope ELSE DEFAULT_SCOPE]

(* prisma.user.upsert resolves; the token upsert is built and awaited *)
UserUpsertResolves(t) ==
    /\ task[t].pc = "userUpsert"
    /\ user' = [user EXCEPT ![task[t].googleId] = [channelId |-> task[t].channelId]]
    /\ \E ivA \in Nonces, ivR \in Nonces :
         task' = [task EXCEPT ![t] = [@ EXCEPT !.pc = "tokenUpsert", !.userId = task[t].googleId,
                                               !.data = CallbackData(task[t].tokens, now, ivA, ivR)]]
    /\ UNCHANGED <<pureVars, now, calls, oAuthToken, video, eventLog, oauth2Credentials>>

(* Mutant of UpsertRow: the update branch leaves accessTokenExpiresAt alone *)
UpsertRowKeepsExpiry(row, data) ==
    IF row = None
    THEN [accessToken |-> data.accessToken, refreshToken |-> data.refreshToken,
          accessTokenExpiresAt |-> data.accessTokenExpiresAt, scope |-> data.scope]
    ELSE [accessToken |-> data.accessToken,
          refreshToken |-> IF data.setRefreshToken THEN data.refreshToken ELSE row.refreshToken,
          accessTokenExpiresAt |-> row.accessTokenExpiresAt, scope |-> data.scope]

(* prisma upsert: the update branch keeps refreshToken when it is undefined, *)
(* the create branch stores encrypt(refresh_token || '')                     *)
UpsertRow(row, data) ==
    IF row = None
    THEN [accessToken |-> data.accessToken, refreshToken |-> data.refreshToken,
          accessTokenExpiresAt |-> data.accessTokenExpiresAt, scope |-> data.scope]
    ELSE [accessToken |-> data.accessToken,
          refreshToken |-> IF data.setRefreshToken THEN data.refreshToken ELSE row.refreshToken,
          accessTokenExpiresAt |-> data.accessTokenExpiresAt, scope |-> data.scope]

(* The rows a completed first authorization of user u leaves in the store *)
AuthorizedRows(u) ==
    { UpsertRow(None, CallbackData(tokens, 0, ivA, ivR)) :
        tokens \in TokenResponses(u, 0), ivA \in Nonces, ivR \in Nonces }

(* The database outlives the process: at start each user either never      *)
(* authorized (no rows) or holds the rows of a completed authorization.    *)
Init ==
    /\ now = 0
    /\ calls = 0
    /\ oAuthToken \in [Users -> {None} \cup UNION {AuthorizedRows(u) : u \in Users}]
    /\ \A u \in Users : oAuthToken[u] # None => oAuthToken[u] \in AuthorizedRows(u)
    /\ user \in [Users -> {None} \cup {[channelId |-> c] : c \in {0} \cup Users}]
    /\ \A u \in Users : /\ (user[u] = None) = (oAuthToken[u] = None)
                        /\ user[u] # None => user[u].channelId \in {0, u}
    /\ video = [u \in Users |-> FALSE]
    /\ note = [u \in Users |-> 0]
    /\ eventLog = [e \in EventTypes |-> [u \in Users |-> 0]]
    /\ oauth2Credentials = None
    /\ task = [t \in Tasks |-> IdleTask]
    /\ sealing = None
    /\ classifying = None
    /\ NoClient

(* The clock advances between any two steps. *)
Tick ==
    /\ now < MaxNow
    /\ now' = now + 1
    /\ UNCHANGED <<pureVars, calls, oAuthToken, user, video, eventLog, oauth2Credentials, task>>

(* Mutant of TokenUpsertResolves: the row is created once and an       *)
(* existing row is left as it is                                         *)
TokenUpsertResolvesCreatesOnce(t) ==
    /\ task[t].pc = "tokenUpsert"
    /\ oAuthToken' = [oAuthToken EXCEPT ![task[t].userId] =
                         IF @ = None THEN UpsertRow(@, task[t].data) ELSE @]
    /\ task' = [task EXCEPT ![t] = [@ EXCEPT !.pc = "logLogin", !.data = None]]
    /\ UNCHANGED <<pureVars, now, calls, user, video, eventLog, oauth2Credentials>>

TokenUpsertResolves(t) ==
    /\ task[t].pc = "tokenUpsert"
    /\ oAuthToken' = [oAuthToken EXCEPT ![task[t].userId] = UpsertRow(@, task[t].data)]
    /\ task' = [task EXCEPT ![t] = [@ EXCEPT !.pc = "logLogin", !.data = None]]
    /\ UNCHANGED <<pureVars, now, calls, user, video, eventLog, oauth2Credentials>>

(* EventService.log resolves; the session token is generated and returned *)
LogLoginResolves(t) ==
    /\ task[t].pc = "logLogin"
    /\ LogEvent("login", task[t].userId)
    /\ task' = [task EXCEPT ![t] = Return(@, <<task[t].userId, task[t].googleId>>)]
    /\ UNCHANGED <<pureVars, now, calls, oAuthToken, user, video, oauth2Credentials>>

(* The response is sent and the request ends *)
Finish(t) ==
    /\ task[t].pc \in {"done", "failed"}
    /\ task' = [task EXCEPT ![t] = IdleTask]
    /\ UNCHANGED <<pureVars, now, calls, oAuthToken, user, video, eventLog, oauth2Credentials>>

TokenOps == {"getValidAccessToken", "getVideoDetails"}

Step(t) ==
    \/ FindUniqueNone(t)
    \/ FindUniqueFresh(t)
    \/ FindUniqueStale(t)
    \/ RefreshRejects(t)
    \/ RefreshResolves(t)
    \/ UpdateResolves(t)
    \/ VideosListRejects(t)
    \/ VideosListResolves(t)
    \/ VideoUpsertResolves(t)
    \/ LogFetchResolves(t)
    \/ GetTokenRejects(t)
    \/ GetTokenResolves(t)
    \/ UserinfoRejects(t)
    \/ UserinfoResolves(t)
    \/ ChannelsSettles(t)
    \/ UserUpsertResolves(t)
    \/ TokenUpsertResolves(t)
    \/ LogLoginResolves(t)
    \/ Finish(t)

Next ==
    \/ Tick
    \/ \E t \in Tasks, u \in Users, op \in TokenOps : Call(t, u, op)
    \/ \E t \in Tasks, code \in Users : CallHandleCallback(t, code)
    \/ \E t \in Tasks : Step(t)

Spec == Init /\ [][Next]_vars

(* Every awaited call of a request in flight settles. *)
FairSpec == Spec /\ \A t \in Tasks : WF_vars(Step(t))

(* ------------------ two users on the shared oauth2Client --------------- *)
CrossUsers == {1, 2}

(* The database at start, for two users: each never authorized, or with *)
(* the rows of a completed authorization that found the user's channel  *)
CrossInit ==
    /\ now = 0
    /\ calls = 0
    /\ oAuthToken \in [CrossUsers -> {None} \cup UNION {AuthorizedRows(u) : u \in CrossUsers}]
    /\ \A u \in CrossUsers : oAuthToken[u] # None => oAuthToken[u] \in AuthorizedRows(u)
    /\ user = [u \in CrossUsers |-> IF oAuthToken[u] = None THEN None ELSE [channelId |-> u]]
    /\ video = [u \in CrossUsers |-> FALSE]
    /\ note = [u \in CrossUsers |-> 0]
    /\ eventLog = [e \in EventTypes |-> [u \in CrossUsers |-> 0]]
    /\ oauth2Credentials = None
    /\ task = [t \in Tasks |-> IdleTask]
    /\ sealing = None
    /\ classifying = None
    /\ NoClient

CrossStep(t) ==
    \/ FindUniqueNone(t)
    \/ FindUniqueFresh(t)
    \/ FindUniqueStale(t)
    \/ RefreshRejects(t)
    \/ RefreshResolves(t)
    \/ UpdateResolves(t)
    \/ GetTokenRejects(t)
    \/ GetTokenResolves(t)
    \/ UserinfoRejects(t)
    \/ UserinfoResolves(t)
    \/ ChannelsSettles(t)
    \/ UserUpsertResolves(t)
    \/ TokenUpsertResolves(t)
    \/ LogLoginResolves(t)
    \/ Finish(t)

CrossNext ==
    \/ Tick
    \/ \E t \in Tasks, u \in CrossUsers : Call(t, u, "getValidAccessToken")
    \/ \E t \in Tasks, code \in CrossUsers : CallHandleCallback(t, code)
    \/ \E t \in Tasks : CrossStep(t)

CrossSpec == CrossInit /\ [][CrossNext]_vars

(* ---------------- YouTubeService / CommentService operations ----------- *)
OpsTasks == {1}

(* How many audit rows of user u the table log holds *)
EventCount(log, u) ==
    log["login"][u] + log["logout"][u] + log["fetch_video"][u] + log["update_video_metadata"][u]
    + log["comment_added"][u] + log["reply_added"][u] + log["comment_deleted"][u]
    + log["note_created"][u] + log["note_updated"][u] + log["note_deleted"][u]

(* A controller calls a provider operation, which awaits getClient and so *)
(* prisma.oAuthToken.findUnique; logged is history: the audit rows of the *)
(* user when the operation began                                          *)
CallProvider(t, u, op) ==
    /\ task[t].pc = "idle"
    /\ calls < MaxCalls
    /\ calls' = calls + 1
    /\ task' = [task EXCEPT ![t] = [IdleTask EXCEPT !.pc = "findUnique", !.op = op, !.userId = u,
                                                    !.logged = EventCount(eventLog, u)]]
    /\ UNCHANGED <<pureVars, now, oAuthToken, user, video, eventLog, oauth2Credentials>>

ProviderCallPcs ==
    {"currentVideo", "videosUpdate", "uploadsChannel", "playlistItems", "commentsChannel",
     "commentThreadsList", "commentThreadsInsert", "commentsInsert", "commentsList",
     "ownChannel", "commentsDelete"}

(* An awaited provider call rejects: the catch of the operation *)
ProviderCallRejects(t) ==
    /\ task[t].pc \in ProviderCallPcs
    /\ \E e \in ProviderErrors : task' = [task EXCEPT ![t] = Throw(@, e)]
    /\ UNCHANGED <<pureVars, now, calls, oAuthToken, user, video, eventLog, oauth2Credentials>>

(* updateVideoMetadata: videos.list resolves, videos.update is awaited *)
CurrentVideoResolves(t) ==
    /\ task[t].pc = "currentVideo"
    /\ \E found \in BOOLEAN :
         task' = [task EXCEPT ![t] =
            IF found THEN [@ EXCEPT !.pc = "videosUpdate"]
            ELSE Throw(@, ApiError(404, "Video not found"))]
    /\ UNCHANGED <<pureVars, now, calls, oAuthToken, user, video, eventLog, oauth2Credentials>>

VideosUpdateResolves(t) ==
    /\ task[t].pc = "videosUpdate"
    /\ task' = [task EXCEPT ![t] = [@ EXCEPT !.pc = "logUpdate"]]
    /\ UNCHANGED <<pureVars, now, calls, oAuthToken, user, video, eventLog, oauth2Credentials>>

(* EventService.log resolves; updateVideoMetadata returns                *)
(* this.getVideoDetails(userId, videoId), which awaits getClient again   *)
LogUpdateResolves(t) ==
    /\ task[t].pc = "logUpdate"
    /\ LogEvent("update_video_metadata", task[t].userId)
    /\ task' = [task EXCEPT ![t] = [@ EXCEPT !.pc = "findUnique", !.inner = TRUE]]
    /\ UNCHANGED <<pureVars, now, calls, oAuthToken, user, video, oauth2Credentials>>

(* getUserVideos: channels.list resolves; without an uploads playlist [] *)
(* is returned, otherwise playlistItems.list is awaited                  *)
UploadsChannelResolves(t) ==
    /\ task[t].pc = "uploadsChannel"
    /\ \E uploads \in BOOLEAN :
         task' = [task EXCEPT ![t] =
            IF uploads THEN [@ EXCEPT !.pc = "playlistItems"] ELSE Return(@, << >>)]
    /\ UNCHANGED <<pureVars, now, calls, oAuthToken, user, video, eventLog, oauth2Credentials>>

PlaylistItemsResolves(t) ==
    /\ task[t].pc = "playlistItems"
    /\ task' = [task EXCEPT ![t] = Return(@, <<task[t].userId>>)]
    /\ UNCHANGED <<pureVars, now, calls, oAuthToken, user, video, eventLog, oauth2Credentials>>

(* getComments: channels.list resolves with the caller's channel or none *)
CommentsChannelResolves(t) ==
    /\ task[t].pc = "commentsChannel"
    /\ \E found \in BOOLEAN :
         task' = [task EXCEPT ![t] =
            [@ EXCEPT !.pc = "commentThreadsList",
                      !.channelId = IF found THEN task[t].userId ELSE 0]]
    /\ UNCHANGED <<pureVars, now, calls, oAuthToken, user, video, eventLog, oauth2Credentials>>

CommentThreadsListResolves(t) ==
    /\ task[t].pc = "commentThreadsList"
    /\ task' = [task EXCEPT ![t] = Return(@, <<task[t].channelId>>)]
    /\ UNCHANGED <<pureVars, now, calls, oAuthToken, user, video, eventLog, oauth2Credentials>>

(* addComment: commentThreads.insert resolves, the event is logged *)
CommentThreadsInsertResolves(t) ==
    /\ task[t].pc = "commentThreadsInsert"
    /\ task' = [task EXCEPT ![t] = [@ EXCEPT !.pc = "logComment"]]
    /\ UNCHANGED <<pureVars, now, calls, oAuthToken, user, video, eventLog, oauth2Credentials>>

(* replyToComment: comments.insert resolves, the event is logged *)
CommentsInsertResolves(t) ==
    /\ task[t].pc = "commentsInsert"
    /\ task' = [task EXCEPT ![t] = [@ EXCEPT !.pc = "logReply"]]
    /\ UNCHANGED <<pureVars, now, calls, oAuthToken, user, video, eventLog, oauth2Credentials>>

(* deleteComment: comments.list resolves: no item throws ApiError(404);  *)
(* an item carries its author's channel id (0: none, the caller's, or    *)
(* somebody else's) and channels.list is awaited                         *)
CommentsListResolves(t) ==
    /\ task[t].pc = "commentsList"
    /\ \E found \in BOOLEAN, a \in {0, task[t].userId, task[t].userId + 1} :
         task' = [task EXCEPT ![t] =
            IF found THEN [@ EXCEPT !.pc = "ownChannel", !.author = a]
            ELSE Throw(@, ApiError(404, "Comment not found"))]
    /\ UNCHANGED <<pureVars, now, calls, oAuthToken, user, video, eventLog, oauth2Credentials>>

(* Mutant of OwnChannelResolves: the ownership test is left out *)
OwnChannelResolvesUnchecked(t) ==
    /\ task[t].pc = "ownChannel"
    /\ \E found \in BOOLEAN :
         task' = [task EXCEPT ![t] =
            [@ EXCEPT !.pc = "commentsDelete",
                      !.channelId = IF found THEN task[t].userId ELSE 0]]
    /\ UNCHANGED <<pureVars, now, calls, oAuthToken, user, video, eventLog, oauth2Credentials>>

(* deleteComment: channels.list resolves with the caller's channel or    *)
(* none (undefined); a different author throws ApiError(403), otherwise  *)
(* comments.delete is awaited                                            *)
OwnChannelResolves(t) ==
    /\ task[t].pc = "ownChannel"
    /\ \E found \in BOOLEAN :
         LET userChannelId == IF found THEN task[t].userId ELSE 0
         IN  task' = [task EXCEPT ![t] =
                IF task[t].author # userChannelId
                THEN Throw(@, ApiError(403, "You can only delete your own comments"))
                ELSE [@ EXCEPT !.pc = "commentsDelete", !.channelId = userChannelId]]
    /\ UNCHANGED <<pureVars, now, calls, oAuthToken, user, video, eventLog, oauth2Credentials>>

CommentsDeleteResolves(t) ==
    /\ task[t].pc = "commentsDelete"
    /\ task' = [task EXCEPT ![t] = [@ EXCEPT !.pc = "logDelete"]]
    /\ UNCHANGED <<pureVars, now, calls, oAuthToken, user, video, eventLog, oauth2Credentials>>

(* The event a comment operation logs before it returns *)
CommentEvent(pc) ==
    IF pc = "logComment" THEN "comment_added"
    ELSE IF pc = "logReply" THEN "reply_added"
    ELSE "comment_deleted"

(* EventService.log resolves and the comment operation returns *)
CommentLogResolves(t) ==
    /\ task[t].pc \in {"logComment", "logReply", "logDelete"}
    /\ LogEvent(CommentEvent(task[t].pc), task[t].userId)
    /\ task' = [task EXCEPT ![t] = Return(@, << >>)]
    /\ UNCHANGED <<pureVars, now, calls, oAuthToken, user, video, oauth2Credentials>>

OpsStep(t) ==
    \/ FindUniqueNone(t)
    \/ FindUniqueFresh(t)
    \/ FindUniqueStale(t)
    \/ RefreshRejects(t)
    \/ RefreshResolves(t)
    \/ UpdateResolves(t)
    \/ VideosListRejects(t)
    \/ VideosListResolves(t)
    \/ VideoUpsertResolves(t)
    \/ LogFetchResolves(t)
    \/ ProviderCallRejects(t)
    \/ CurrentVideoResolves(t)
    \/ VideosUpdateResolves(t)
    \/ LogUpdateResolves(t)
    \/ UploadsChannelResolves(t)
    \/ PlaylistItemsResolves(t)
    \/ CommentsChannelResolves(t)
    \/ CommentThreadsListResolves(t)
    \/ CommentThreadsInsertResolves(t)
    \/ CommentsInsertResolves(t)
    \/ CommentsListResolves(t)
    \/ OwnChannelResolves(t)
    \/ CommentsDeleteResolves(t)
    \/ CommentLogResolves(t)
    \/ Finish(t)

OpsNext ==
    \/ Tick
    \/ \E t \in OpsTasks, u \in Users, op \in ProviderOps : CallProvider(t, u, op)
    \/ \E t \in OpsTasks : OpsStep(t)

OpsSpec == Init /\ [][OpsNext]_vars

(* ----------------- the codec and the classifier applied ---------------- *)
MaxLen == 2
Chars == {1, 2}
Texts == UNION {[1..n -> Chars] : n \in 0..MaxLen}
(* crypto.randomBytes(IV_LENGTH) *)
IVS == 0 .. (Radix - 1)

(* What a catch block can hand to the classifier: null, an Error without *)
(* response, an ApiError, a provider response with status and reason     *)
NullError == Thrown("null", 0, "", "")
ProviderStatuses == {400, 401, 403, 404, 500}
ProviderReasons == {"", "quotaExceeded", "forbidden", "notFound", "authError"}
ClassifierInputs ==
    {NullError, Thrown("Error", 0, "", "socket hang up"), ApiError(403, "forbidden")}
    \cup {Thrown("GaxiosError", st, r, "") : st \in ProviderStatuses, r \in ProviderReasons}

FunctionInit ==
    /\ now = 0
    /\ calls = 0
    /\ oAuthToken = [u \in Users |-> None]
    /\ user = [u \in Users |-> None]
    /\ video = [u \in Users |-> FALSE]
    /\ note = [u \in Users |-> 0]
    /\ eventLog = [e \in EventTypes |-> [u \in Users |-> 0]]
    /\ oauth2Credentials = None
    /\ task = [t \in Tasks |-> IdleTask]
    /\ sealing \in [pc : {"text"}, text : Texts, envelope : {EmptyString}, opened : {None}]
    /\ classifying \in [error : ClassifierInputs, result : {None}]
    /\ NoClient

(* encrypt(text) under a fresh iv *)
ApplyEncrypt ==
    /\ sealing.pc = "text"
    /\ \E iv \in IVS :
         sealing' = [sealing EXCEPT !.pc = "sealed", !.envelope = encrypt(sealing.text, iv)]
    /\ UNCHANGED <<coreVars, classifying>>

(* decrypt(envelope): the string returned, or the error thrown *)
ApplyDecrypt ==
    /\ sealing.pc = "sealed"
    /\ sealing' = [sealing EXCEPT !.pc = "opened", !.opened = decrypt(sealing.envelope)]
    /\ UNCHANGED <<coreVars, classifying>>

(* handleYouTubeQuotaError(error) *)
ApplyClassifier ==
    /\ classifying.result = None
    /\ classifying' = [classifying EXCEPT !.result = handleYouTubeQuotaError(classifying.error)]
    /\ UNCHANGED <<coreVars, sealing>>

FunctionNext ==
    \/ ApplyEncrypt
    \/ ApplyDecrypt
    \/ ApplyClassifier

FunctionSpec == FunctionInit /\ [][FunctionNext]_vars

(* ------------------- session tokens and authenticate ------------------ *)
SessionUsers == {1, 2}
SessionTasks == {1}
JWT_SECRET == 7
JWT_EXPIRES_IN == 7 * 24 * 60 * 60

(* The row prisma.user holds for user u: id, email and the provider's    *)
(* subject id are three different values                                 *)
ProfileRow(u) == [id |-> u, email |-> 10 + u, googleId |-> 20 + u, channelId |-> 0]

(* prisma.user.findUnique({ where: { id } }) *)
FindUser(id) == IF id \in DOMAIN user THEN user[id] ELSE None

(* The signature jwt.sign computes over the claims with the secret *)
Sign(claims, secret) ==
    <<claims.userId, claims.email, claims.googleId, claims.iat, claims.exp, secret>>

(* Mutant of generateToken: the provider's subject id is put in userId *)
generateTokenSubjectAsUserId(row, nowMs) ==
    LET claims == [userId |-> row.googleId, email |-> row.email, googleId |-> row.googleId,
                   iat |-> nowMs \div 1000, exp |-> (nowMs \div 1000) + JWT_EXPIRES_IN]
    IN  [claims |-> claims, signature |-> Sign(claims, JWT_SECRET)]

(* generateToken: jwt.sign({ userId, email, googleId }, secret, { expiresIn }) *)
generateToken(row, nowMs) ==
    LET claims == [userId |-> row.id, email |-> row.email, googleId |-> row.googleId,
                   iat |-> nowMs \div 1000, exp |-> (nowMs \div 1000) + JWT_EXPIRES_IN]
    IN  [claims |-> claims, signature |-> Sign(claims, JWT_SECRET)]

(* jwt.verify(token, secret): the signature is checked first, then exp;  *)
(* the claims are returned                                               *)
jwtVerify(token, secret, nowMs) ==
    IF token.signature # Sign(token.claims, secret)
    THEN Thrown("JsonWebTokenError", 0, "", "invalid signature")
    ELSE IF nowMs \div 1000 >= token.claims.exp
    THEN Thrown("TokenExpiredError", 0, "", "jwt expired")
    ELSE Returned(token.claims)

(* error instanceof cls: TokenExpiredError extends JsonWebTokenError, *)
(* every error class extends Error                                    *)
InstanceOf(error, cls) ==
    \/ cls = error.kind
    \/ cls = "Error"
    \/ cls = "JsonWebTokenError" /\ error.kind = "TokenExpiredError"

(* the catch block of authenticate: what it passes to next() *)
AuthenticateCatch(error) ==
    IF InstanceOf(error, "ApiError") THEN error
    ELSE IF InstanceOf(error, "JsonWebTokenError") THEN ApiError(401, "Invalid token")
    ELSE IF InstanceOf(error, "TokenExpiredError") THEN ApiError(401, "Token expired")
    ELSE error

(* The routes of the application, one per router entry *)
Routes ==
    {"/api/health", "/api/auth/login", "/api/auth/url", "/api/auth/callback",
     "/api/auth/me", "/api/auth/logout", "/api/auth/verify",
     "/api/videos", "/api/comments", "/api/notes", "/api/ai", "/api/events"}

(* Mutant of Authenticates: /logout is mounted without the middleware *)
AuthenticatesButLogout(route) ==
    route \in {"/api/auth/me", "/api/auth/verify",
               "/api/videos", "/api/comments", "/api/notes", "/api/ai", "/api/events"}

(* The routes whose chain starts with authenticate: router.get(path,     *)
(* authenticate, handler) and the routers that router.use(authenticate)  *)
Authenticates(route) ==
    route \in {"/api/auth/me", "/api/auth/logout", "/api/auth/verify",
               "/api/videos", "/api/comments", "/api/notes", "/api/ai", "/api/events"}

(* The instants at which the tokens in circulation were issued *)
IssueInstants(nowMs) == {i \in {k * JWT_EXPIRES_IN * 1000 : k \in 0..MaxNow} : i <= nowMs}

(* A token with an altered signature byte, or with another user id under *)
(* the signature of the original claims                                  *)
Altered(token) ==
    {[token EXCEPT !.signature = [@ EXCEPT ![6] = @ + 1]]}
    \cup {[token EXCEPT !.claims.userId = u] : u \in SessionUsers \ {token.claims.userId}}

(* What a request can present as Bearer header or cookie: nothing, a     *)
(* token generateToken issued for a profile, or such a token altered     *)
RequestTokens(nowMs) ==
    LET issued == {generateToken(ProfileRow(u), i) : u \in SessionUsers, i \in IssueInstants(nowMs)}
    IN  {None} \cup issued \cup UNION {Altered(token) : token \in issued}

(* next(error): the chain is left for the error handler *)
NextError(rq, error) == [rq EXCEPT !.pc = "failed", !.outcome = error]

(* Mutant of Request: a token of a user who has logged out is refused *)
RequestRefusesLoggedOut(t, route, token) ==
    /\ task[t].pc = "idle"
    /\ calls < MaxCalls
    /\ calls' = calls + 1
    /\ LET rq == [IdleTask EXCEPT !.op = "request", !.route = route, !.token = token]
           verified == jwtVerify(token, JWT_SECRET, now)
       IN  task' = [task EXCEPT ![t] =
              IF ~Authenticates(route) THEN [rq EXCEPT !.pc = "handler"]
              ELSE IF token = None
              THEN NextError(rq, AuthenticateCatch(ApiError(401, "Authentication required")))
              ELSE IF verified.ok /\ eventLog["logout"][verified.value.userId] = 0
              THEN [rq EXCEPT !.pc = "findUser", !.decoded = verified.value]
              ELSE IF verified.ok
              THEN NextError(rq, ApiError(401, "Invalid token"))
              ELSE NextError(rq, AuthenticateCatch(verified))]
    /\ UNCHANGED <<pureVars, now, oAuthToken, user, video, eventLog, oauth2Credentials>>

(* A request arrives.  On a route without authenticate the handler is    *)
(* next; otherwise authenticate runs up to its await: no token and a     *)
(* token jwt.verify rejects go through the catch block to next(error)    *)
Request(t, route, token) ==
    /\ task[t].pc = "idle"
    /\ calls < MaxCalls
    /\ calls' = calls + 1
    /\ LET rq == [IdleTask EXCEPT !.op = "request", !.route = route, !.token = token]
           verified == jwtVerify(token, JWT_SECRET, now)
       IN  task' = [task EXCEPT ![t] =
              IF ~Authenticates(route) THEN [rq EXCEPT !.pc = "handler"]
              ELSE IF token = None
              THEN NextError(rq, AuthenticateCatch(ApiError(401, "Authentication required")))
              ELSE IF verified.ok
              THEN [rq EXCEPT !.pc = "findUser", !.decoded = verified.value]
              ELSE NextError(rq, AuthenticateCatch(verified))]
    /\ UNCHANGED <<pureVars, now, oAuthToken, user, video, eventLog, oauth2Credentials>>

(* Mutant of FindUserResolves: the identity is taken from the token *)
(* without looking at the row                                      *)
FindUserResolvesTrustsToken(t) ==
    /\ task[t].pc = "findUser"
    /\ task' = [task EXCEPT ![t] =
          [@ EXCEPT !.pc = "handler",
                    !.reqUser = [id |-> task[t].decoded.userId, email |-> task[t].decoded.email,
                                 googleId |-> task[t].decoded.googleId]]]
    /\ UNCHANGED <<pureVars, now, calls, oAuthToken, user, video, eventLog, oauth2Credentials>>

(* prisma.user.findUnique resolves: without a row next(ApiError(401)),   *)
(* with one req.user is set from the row and next() runs the handler     *)
FindUserResolves(t) ==
    /\ task[t].pc = "findUser"
    /\ LET row == FindUser(task[t].decoded.userId)
       IN  task' = [task EXCEPT ![t] =
              IF row = None
              THEN NextError(@, AuthenticateCatch(ApiError(401, "User not found")))
              ELSE [@ EXCEPT !.pc = "handler",
                             !.reqUser = [id |-> row.id, email |-> row.email,
                                          googleId |-> row.googleId]]]
    /\ UNCHANGED <<pureVars, now, calls, oAuthToken, user, video, eventLog, oauth2Credentials>>

(* The route's handler runs and answers with the identity it was given *)
HandlerRuns(t) ==
    /\ task[t].pc = "handler"
    /\ task' = [task EXCEPT ![t] = [@ EXCEPT !.pc = "done", !.outcome = Returned(task[t].reqUser)]]
    /\ UNCHANGED <<pureVars, now, calls, oAuthToken, user, video, eventLog, oauth2Credentials>>

(* The clock passes the lifetime of a token *)
SessionTick ==
    /\ now < MaxNow * JWT_EXPIRES_IN * 1000
    /\ now' = now + JWT_EXPIRES_IN * 1000
    /\ UNCHANGED <<pureVars, calls, oAuthToken, user, video, eventLog, oauth2Credentials, task>>

(* The User table at start: each profile present or not *)
SessionInit ==
    /\ now = 0
    /\ calls = 0
    /\ oAuthToken = [u \in SessionUsers |-> None]
    /\ user \in [SessionUsers -> {None} \cup {ProfileRow(u) : u \in SessionUsers}]
    /\ \A u \in SessionUsers : user[u] \in {None, ProfileRow(u)}
    /\ video = [u \in SessionUsers |-> FALSE]
    /\ note = [u \in SessionUsers |-> 0]
    /\ eventLog = [e \in EventTypes |-> [u \in SessionUsers |-> 0]]
    /\ oauth2Credentials = None
    /\ task = [t \in Tasks |-> IdleTask]
    /\ sealing = None
    /\ classifying = None
    /\ NoClient

SessionNext ==
    \/ SessionTick
    \/ \E t \in SessionTasks, route \in Routes, token \in RequestTokens(now) : Request(t, route, token)
    \/ \E t \in SessionTasks : FindUserResolves(t)
    \/ \E t \in SessionTasks : HandlerRuns(t)
    \/ \E t \in SessionTasks : Finish(t)

SessionSpec == SessionInit /\ [][SessionNext]_vars

(* ------------------ AuthController.logout / AuthService.logout --------- *)
LogoutRoute == "/api/auth/logout"
LogoutSuccess == [success |-> TRUE]

(* AuthController.logout: with req.user it awaits AuthService.logout,    *)
(* which awaits prisma.oAuthToken.findUnique; without req.user it clears *)
(* the cookie and answers at once                                        *)
LogoutHandlerRuns(t) ==
    /\ task[t].pc = "handler"
    /\ task[t].route = LogoutRoute
    /\ task' = [task EXCEPT ![t] =
          IF task[t].reqUser # None
          THEN [@ EXCEPT !.pc = "logoutFind", !.userId = task[t].reqUser.id]
          ELSE [@ EXCEPT !.pc = "done", !.outcome = Returned(LogoutSuccess)]]
    /\ UNCHANGED <<pureVars, now, calls, oAuthToken, user, video, eventLog, oauth2Credentials>>

(* findUnique resolves: with a row the access token is decrypted and     *)
(* revokeToken awaited (a decrypt that throws is caught by logout, which *)
(* returns success); without a row the logout event is logged            *)
LogoutFindResolves(t) ==
    /\ task[t].pc = "logoutFind"
    /\ LET tokenRecord == oAuthToken[task[t].userId]
       IN  task' = [task EXCEPT ![t] =
              IF tokenRecord = None THEN [@ EXCEPT !.pc = "logLogout"]
              ELSE IF decrypt(tokenRecord.accessToken).ok
              THEN [@ EXCEPT !.pc = "revokeToken",
                             !.accessToken = decrypt(tokenRecord.accessToken).value]
              ELSE [@ EXCEPT !.pc = "done", !.outcome = Returned(LogoutSuccess)]]
    /\ UNCHANGED <<pureVars, now, calls, oAuthToken, user, video, eventLog, oauth2Credentials>>

(* oauth2Client.revokeToken settles: a rejection is swallowed by .catch; *)
(* revoked is history                                                    *)
RevokeTokenSettles(t) ==
    /\ task[t].pc = "revokeToken"
    /\ \E resolved \in BOOLEAN :
         task' = [task EXCEPT ![t] = [@ EXCEPT !.pc = "logLogout", !.revoked = resolved]]
    /\ UNCHANGED <<pureVars, now, calls, oAuthToken, user, video, eventLog, oauth2Credentials>>

(* EventService.log resolves, logout returns, the controller clears the  *)
(* cookie and answers                                                    *)
LogLogoutResolves(t) ==
    /\ task[t].pc = "logLogout"
    /\ LogEvent("logout", task[t].userId)
    /\ task' = [task EXCEPT ![t] = [@ EXCEPT !.pc = "done", !.outcome = Returned(LogoutSuccess)]]
    /\ UNCHANGED <<pureVars, now, calls, oAuthToken, user, video, oauth2Credentials>>

(* The tables at start: each profile present or not, and a present user  *)
(* with or without the credential row of a completed authorization       *)
LogoutInit ==
    /\ now = 0
    /\ calls = 0
    /\ user \in [SessionUsers -> {None} \cup {ProfileRow(u) : u \in SessionUsers}]
    /\ \A u \in SessionUsers : user[u] \in {None, ProfileRow(u)}
    /\ oAuthToken \in [SessionUsers -> {None} \cup UNION {AuthorizedRows(u) : u \in SessionUsers}]
    /\ \A u \in SessionUsers :
         /\ oAuthToken[u] # None => oAuthToken[u] \in AuthorizedRows(u)
         /\ user[u] = None => oAuthToken[u] = None
    /\ video = [u \in SessionUsers |-> FALSE]
    /\ note = [u \in SessionUsers |-> 0]
    /\ eventLog = [e \in EventTypes |-> [u \in SessionUsers |-> 0]]
    /\ oauth2Credentials = None
    /\ task = [t \in Tasks |-> IdleTask]
    /\ sealing = None
    /\ classifying = None
    /\ NoClient

LogoutNext ==
    \/ SessionTick
    \/ \E t \in SessionTasks, route \in Routes, token \in RequestTokens(now) : Request(t, route, token)
    \/ \E t \in SessionTasks : FindUserResolves(t)
    \/ \E t \in SessionTasks : task[t].route # LogoutRoute /\ HandlerRuns(t)
    \/ \E t \in SessionTasks : LogoutHandlerRuns(t)
    \/ \E t \in SessionTasks : LogoutFindResolves(t)
    \/ \E t \in SessionTasks : RevokeTokenSettles(t)
    \/ \E t \in SessionTasks : LogLogoutResolves(t)
    \/ \E t \in SessionTasks : Finish(t)

LogoutSpec == LogoutInit /\ [][LogoutNext]_vars

(* ------------------------------ NoteService --------------------------- *)
NoteOps == {"createNote", "updateNote", "deleteNote"}

(* A note controller calls the service, which awaits findFirst: of the   *)
(* video for createNote, of the note otherwise                           *)
CallNote(t, u, op) ==
    /\ task[t].pc = "idle"
    /\ calls < MaxCalls
    /\ calls' = calls + 1
    /\ task' = [task EXCEPT ![t] = [IdleTask EXCEPT !.pc = "noteFind", !.op = op, !.userId = u]]
    /\ UNCHANGED <<pureVars, now, oAuthToken, user, video, eventLog, oauth2Credentials>>

(* findFirst resolves: without a row ApiError(404) is thrown, with one   *)
(* the note is created, updated or deleted                               *)
NoteFindResolves(t) ==
    /\ task[t].pc = "noteFind"
    /\ LET exists == IF task[t].op = "createNote" THEN video[task[t].userId]
                     ELSE note[task[t].userId] > 0
       IN  \E found \in {FALSE, exists} :
             task' = [task EXCEPT ![t] =
                IF found THEN [@ EXCEPT !.pc = "noteWrite"]
                ELSE Throw(@, ApiError(404, IF task[t].op = "createNote"
                                            THEN "Video not found" ELSE "Note not found"))]
    /\ UNCHANGED <<pureVars, now, calls, oAuthToken, user, video, eventLog, oauth2Credentials>>

(* prisma.note.create / update / delete resolves; the event is logged next *)
NoteWriteResolves(t) ==
    /\ task[t].pc = "noteWrite"
    /\ note' = [note EXCEPT ![task[t].userId] =
                   IF task[t].op = "createNote" THEN @ + 1
                   ELSE IF task[t].op = "deleteNote" THEN @ - 1
                   ELSE @]
    /\ task' = [task EXCEPT ![t] = [@ EXCEPT !.pc = "logNote"]]
    /\ UNCHANGED <<sealing, classifying, clientVars,
                   now, calls, oAuthToken, user, video, eventLog, oauth2Credentials>>

NoteEvent(op) ==
    IF op = "createNote" THEN "note_created"
    ELSE IF op = "updateNote" THEN "note_updated"
    ELSE "note_deleted"

(* EventService.log resolves and the note operation returns *)
NoteLogResolves(t) ==
    /\ task[t].pc = "logNote"
    /\ LogEvent(NoteEvent(task[t].op), task[t].userId)
    /\ task' = [task EXCEPT ![t] = Return(@, << >>)]
    /\ UNCHANGED <<pureVars, now, calls, oAuthToken, user, video, oauth2Credentials>>

(* ------------------- writes that fail: the audit log ------------------- *)
LogPcs ==
    {"logFetch", "logUpdate", "logComment", "logReply", "logDelete",
     "logLogin", "logLogout", "logNote"}

(* Mutant of LogWriteFails: the rejection of prisma.eventLog.create      *)
(* reaches the caller                                                   *)
LogWriteThrows(t) ==
    /\ task[t].pc \in LogPcs
    /\ task' = [task EXCEPT ![t] = Throw(@, Thrown("PrismaClientError", 0, "", "eventLog.create"))]
    /\ UNCHANGED <<pureVars, now, calls, oAuthToken, user, video, eventLog, oauth2Credentials>>

(* prisma.eventLog.create rejects: EventService.log catches, prints and  *)
(* returns null; no caller looks at what log returned, so each goes on   *)
(* as it does after a written event                                      *)
LogWriteFails(t) ==
    /\ task[t].pc \in LogPcs
    /\ task' = [task EXCEPT ![t] =
          IF task[t].pc = "logFetch" THEN Return(@, <<task[t].userId>>)
          ELSE IF task[t].pc = "logLogin" THEN Return(@, <<task[t].userId, task[t].googleId>>)
          ELSE IF task[t].pc = "logUpdate" THEN [@ EXCEPT !.pc = "findUnique", !.inner = TRUE]
          ELSE IF task[t].pc = "logLogout"
          THEN [@ EXCEPT !.pc = "done", !.outcome = Returned(LogoutSuccess)]
          ELSE Return(@, << >>)]
    /\ UNCHANGED <<pureVars, now, calls, oAuthToken, user, video, eventLog, oauth2Credentials>>

(* ----------------- writes that fail: the credential row ---------------- *)
KeyError == Thrown("Error", 0, "", "ENCRYPTION_KEY must be a 64-character hex string (32 bytes)")

(* prisma.user.upsert resolves and encrypt, called while the data of the *)
(* token upsert is built, throws on the encryption key                   *)
UserUpsertResolvesEncryptThrows(t) ==
    /\ task[t].pc = "userUpsert"
    /\ user' = [user EXCEPT ![task[t].googleId] = [channelId |-> task[t].channelId]]
    /\ task' = [task EXCEPT ![t] = Throw(@, KeyError)]
    /\ UNCHANGED <<pureVars, now, calls, oAuthToken, video, eventLog, oauth2Credentials>>

(* prisma.oAuthToken.upsert rejects *)
TokenUpsertRejects(t) ==
    /\ task[t].pc = "tokenUpsert"
    /\ task' = [task EXCEPT ![t] = Throw(@, Thrown("PrismaClientError", 0, "", "oAuthToken.upsert"))]
    /\ UNCHANGED <<pureVars, now, calls, oAuthToken, user, video, eventLog, oauth2Credentials>>

(* AuthService.logout(userId) is called and awaits findUnique *)
CallLogout(t, u) ==
    /\ task[t].pc = "idle"
    /\ calls < MaxCalls
    /\ calls' = calls + 1
    /\ task' = [task EXCEPT ![t] = [IdleTask EXCEPT !.pc = "logoutFind", !.op = "logout", !.userId = u]]
    /\ UNCHANGED <<pureVars, now, oAuthToken, user, video, eventLog, oauth2Credentials>>

(* The database at start: a user who never authorized, or the rows of a  *)
(* completed authorization with or without a cached video and a note     *)
FaultInit ==
    /\ now = 0
    /\ calls = 0
    /\ oAuthToken \in [Users -> {None} \cup UNION {AuthorizedRows(u) : u \in Users}]
    /\ \A u \in Users : oAuthToken[u] # None => oAuthToken[u] \in AuthorizedRows(u)
    /\ user \in [Users -> {None} \cup {[channelId |-> c] : c \in {0} \cup Users}]
    /\ \A u \in Users : /\ (user[u] = None) = (oAuthToken[u] = None)
                        /\ user[u] # None => user[u].channelId = u
    /\ video \in [Users -> BOOLEAN]
    /\ note \in [Users -> {0, 1}]
    /\ \A u \in Users : /\ video[u] => user[u] # None
                        /\ (note[u] > 0) = video[u]
    /\ eventLog = [e \in EventTypes |-> [u \in Users |-> 0]]
    /\ oauth2Credentials = None
    /\ task = [t \in Tasks |-> IdleTask]
    /\ sealing = None
    /\ classifying = None
    /\ NoClient

FaultStep(t) ==
    \/ OpsStep(t)
    \/ GetTokenRejects(t)
    \/ GetTokenResolves(t)
    \/ UserinfoRejects(t)
    \/ UserinfoResolves(t)
    \/ ChannelsSettles(t)
    \/ UserUpsertResolves(t)
    \/ TokenUpsertResolves(t)
    \/ LogLoginResolves(t)
    \/ LogoutFindResolves(t)
    \/ RevokeTokenSettles(t)
    \/ LogLogoutResolves(t)
    \/ NoteFindResolves(t)
    \/ NoteWriteResolves(t)
    \/ NoteLogResolves(t)
    \/ LogWriteFails(t)
    \/ UserUpsertResolvesEncryptThrows(t)
    \/ TokenUpsertRejects(t)

FaultNext ==
    \/ Tick
    \/ \E t \in OpsTasks, u \in Users, op \in ProviderOps : CallProvider(t, u, op)
    \/ \E t \in OpsTasks, code \in Users : CallHandleCallback(t, code)
    \/ \E t \in OpsTasks, u \in Users, op \in NoteOps : CallNote(t, u, op)
    \/ \E t \in OpsTasks, u \in Users : CallLogout(t, u)
    \/ \E t \in OpsTasks : FaultStep(t)

FaultSpec == FaultInit /\ [][FaultNext]_vars

(* ----------------------- the browser: useAuthStore -------------------- *)
MaxRequests == 3
OldToken == [jwt |-> 1]
NewToken == [jwt |-> 2]
CurrentUser == [id |-> 1]
Unauthorized == 401
Statuses == {200, Unauthorized, 500}

(* create(...): the initial state of the store *)
InitialState(stored) ==
    [user |-> None, token |-> stored, isAuthenticated |-> FALSE, isLoading |-> TRUE,
     error |-> None]

(* An API call leaves through the request interceptor, which attaches   *)
(* the token localStorage holds                                         *)
Sends(api, caller, bearer) ==
    [id |-> sent + 1, api |-> api, caller |-> caller, bearer |-> bearer, state |-> "sent"]

Settle(r, state) == (requests \ {r}) \cup {[r EXCEPT !.state = state]}

(* The module is evaluated: the store is created from localStorage and  *)
(* initialize() runs up to its await: without a token it clears         *)
(* isLoading, with one it calls fetchUser                               *)
Loads(stored) ==
    /\ localStorage' = stored
    /\ navigating' = FALSE
    /\ IF stored = None
       THEN /\ useAuthStore' = [InitialState(stored) EXCEPT !.isLoading = FALSE,
                                                            !.isAuthenticated = FALSE]
            /\ requests' = {}
            /\ sent' = sent
       ELSE /\ useAuthStore' = InitialState(stored)
            /\ requests' = {Sends("getCurrentUser", "initialize", stored)}
            /\ sent' = sent + 1

(* The page a browser opens: the dashboard or the OAuth landing page,   *)
(* with or without a token left by an earlier session                   *)
ClientInit ==
    /\ now = 0
    /\ calls = 0
    /\ oAuthToken = [u \in Users |-> None]
    /\ user = [u \in Users |-> None]
    /\ video = [u \in Users |-> FALSE]
    /\ note = [u \in Users |-> 0]
    /\ eventLog = [e \in EventTypes |-> [u \in Users |-> 0]]
    /\ oauth2Credentials = None
    /\ task = [t \in Tasks |-> IdleTask]
    /\ sealing = None
    /\ classifying = None
    /\ location \in {"/", "/auth/success"}
    /\ navigating = FALSE
    /\ \E stored \in {None, OldToken} :
         /\ localStorage = stored
         /\ useAuthStore = IF stored = None
                           THEN [InitialState(stored) EXCEPT !.isLoading = FALSE]
                           ELSE InitialState(stored)
         /\ requests = IF stored = None THEN {}
                       ELSE {[id |-> 1, api |-> "getCurrentUser", caller |-> "initialize",
                              bearer |-> stored, state |-> "sent"]}
         /\ sent = IF stored = None THEN 0 ELSE 1

(* App renders its routes once isLoading is false *)
Rendered == ~useAuthStore.isLoading /\ ~navigating

(* AuthCallback's effect with a token in the URL: setToken(token), then *)
(* fetchUser() up to its await                                          *)
HandleCallback ==
    /\ Rendered
    /\ location = "/auth/success"
    /\ sent < MaxRequests
    /\ localStorage' = NewToken
    /\ useAuthStore' = [useAuthStore EXCEPT !.token = NewToken, !.isAuthenticated = TRUE]
    /\ requests' = requests \cup {Sends("getCurrentUser", "callback", NewToken)}
    /\ sent' = sent + 1
    /\ UNCHANGED <<serverVars, navigating, location>>

(* AuthCallback: after a fetchUser that succeeded, navigate('/') *)
NavigateHome ==
    /\ Rendered
    /\ location = "/auth/success"
    /\ \E r \in requests : r.caller = "callback" /\ r.state = "resolved"
    /\ location' = "/"
    /\ UNCHANGED <<serverVars, useAuthStore, localStorage, requests, navigating, sent>>

(* Layout, shown on / to an authenticated user: logout() up to its await *)
LogoutStarts ==
    /\ Rendered
    /\ location = "/"
    /\ useAuthStore.isAuthenticated
    /\ sent < MaxRequests
    /\ requests' = requests \cup {Sends("logout", "logout", localStorage)}
    /\ sent' = sent + 1
    /\ UNCHANGED <<serverVars, useAuthStore, localStorage, navigating, location>>

(* initialize's finally, after its fetchUser settled *)
Finally(state, r) ==
    IF r.caller = "initialize" THEN [state EXCEPT !.isLoading = FALSE] ELSE state

(* authApi.getCurrentUser() resolves in fetchUser *)
GetCurrentUserResolves(r) ==
    /\ r \in requests
    /\ r.api = "getCurrentUser" /\ r.state = "sent"
    /\ useAuthStore' = Finally([useAuthStore EXCEPT !.user = CurrentUser,
                                                    !.isAuthenticated = TRUE,
                                                    !.error = None], r)
    /\ requests' = Settle(r, "resolved")
    /\ UNCHANGED <<serverVars, localStorage, navigating, location, sent>>

(* authApi.getCurrentUser() rejects: the response interceptor removes   *)
(* the token and assigns window.location on a 401, then the catch of    *)
(* fetchUser clears the store and removes the token                     *)
GetCurrentUserRejects(r, status) ==
    /\ r \in requests
    /\ r.api = "getCurrentUser" /\ r.state = "sent"
    /\ status # 200
    /\ navigating' = (navigating \/ status = Unauthorized)
    /\ localStorage' = None
    /\ useAuthStore' = Finally([useAuthStore EXCEPT !.user = None, !.isAuthenticated = FALSE,
                                                    !.token = None], r)
    /\ requests' = Settle(r, "rejected")
    /\ UNCHANGED <<serverVars, location, sent>>

(* authApi.logout() settles: the interceptor on a 401, the catch on any *)
(* rejection, and the finally of logout                                 *)
LogoutSettles(r, status) ==
    /\ r \in requests
    /\ r.api = "logout" /\ r.state = "sent"
    /\ navigating' = (navigating \/ status = Unauthorized)
    /\ localStorage' = None
    /\ useAuthStore' = [useAuthStore EXCEPT !.user = None, !.token = None,
                                            !.isAuthenticated = FALSE]
    /\ requests' = Settle(r, "settled")
    /\ UNCHANGED <<serverVars, location, sent>>

(* A call the dashboard made is answered 401: the response interceptor  *)
(* removes the token and assigns window.location                        *)
DashboardCallUnauthorized ==
    /\ Rendered
    /\ location = "/"
    /\ useAuthStore.isAuthenticated
    /\ localStorage' = None
    /\ navigating' = TRUE
    /\ UNCHANGED <<serverVars, useAuthStore, requests, location, sent>>

(* The navigation to /login completes: the page is loaded anew, and     *)
(* what was in flight is gone                                           *)
PageLoads ==
    /\ navigating
    /\ localStorage = None \/ sent < MaxRequests
    /\ Loads(localStorage)
    /\ location' = "/"
    /\ UNCHANGED serverVars

ClientNext ==
    \/ HandleCallback
    \/ NavigateHome
    \/ LogoutStarts
    \/ \E r \in requests : GetCurrentUserResolves(r)
    \/ \E r \in requests, status \in Statuses : GetCurrentUserRejects(r, status)
    \/ \E r \in requests, status \in Statuses : LogoutSettles(r, status)
    \/ DashboardCallUnauthorized
    \/ PageLoads

ClientSpec == ClientInit /\ [][ClientNext]_vars

(* ======================================================================= *)
(*                               properties                                *)
(* ======================================================================= *)
Settled(t) == task[t].pc \in {"done", "failed"}
Row(t) == oAuthToken[task[t].userId]
Remaining(t) == Row(t).accessTokenExpiresAt - now
Moves(t) == task'[t] # task[t]
Loading(t) == task[t].pc = "findUnique" /\ Row(t) # None

(* The domain kinds the source can express: an ApiError with the HTTP     *)
(* status of the kind.  NotAuthorized and ReauthorizationRequired are 401. *)
IsUnauthorizedKind(error) == error.kind = "ApiError" /\ error.status = 401

(* The access token a token call handed to its caller in this step *)
HandsOver(t, secret) ==
    IF task[t].op = "getVideoDetails"
    THEN task'[t].pc = "videosList" /\ task'[t].accessToken = secret
    ELSE task'[t].pc = "done" /\ task'[t].outcome = Returned(secret)

(* C1: at no moment are two refresh exchanges for the same user in flight. *)
C1_OneExchangeInFlight ==
    \A u \in Users :
        Cardinality({t \in Tasks : task[t].pc = "refreshAccessToken" /\ task[t].userId = u}) <= 1

(* C2: a caller that arrived while a refresh of the same user was in flight *)
(* gets the access secret the caller that started that refresh gets.        *)
C2_SharedOutcome ==
    \A t1 \in Tasks, t2 \in Tasks :
        ( /\ task[t2].arrivedDuring = t1
          /\ task[t1].pc = "update" /\ task[t2].pc = "update"
          /\ task[t1].userId = task[t2].userId )
        => task[t1].tokens.access_token = task[t2].tokens.access_token

(* C3: with more than the buffer remaining, the call starts no exchange,   *)
(* leaves the store alone and hands over the decrypted stored access       *)
(* secret.                                                                 *)
C3_FreshReturnsStored ==
    [][\A t \in Tasks :
        (Loading(t) /\ Remaining(t) > BUFFER_MS /\ Moves(t))
        => /\ oAuthToken' = oAuthToken
           /\ oauth2Credentials' = oauth2Credentials
           /\ task'[t].pc # "refreshAccessToken"
           /\ decrypt(Row(t).accessToken).ok
           /\ HandsOver(t, decrypt(Row(t).accessToken).value)]_vars

C3_Witness ==
    \E t \in Tasks :
        /\ task[t].pc = "done" /\ task[t].op = "getValidAccessToken"
        /\ oauth2Credentials = None
        /\ Remaining(t) > BUFFER_MS
        /\ task[t].outcome = Returned(<<task[t].userId, 1>>)

(* C4: with at most the buffer remaining (exactly the buffer included) the *)
(* credential is stale: the call goes into the refresh and never hands    *)
(* over the stored access secret.                                          *)
C4_StaleAtBoundary ==
    [][\A t \in Tasks :
        (Loading(t) /\ Remaining(t) <= BUFFER_MS /\ Moves(t))
        => /\ task'[t].pc \notin {"done", "videosList"}
           /\ decrypt(Row(t).refreshToken).ok => task'[t].pc = "refreshAccessToken"]_vars

(* C5: a stale credential with an empty refresh secret makes the call fail *)
(* with ReauthorizationRequired, with no exchange and the store unchanged. *)
C5_EmptyRefreshReauthorization ==
    [][\A t \in Tasks :
        ( /\ Loading(t) /\ Remaining(t) < BUFFER_MS /\ Moves(t)
          /\ \E iv \in Nonces : Row(t).refreshToken = encrypt(EmptyString, iv) )
        => /\ task'[t].pc = "failed"
           /\ IsUnauthorizedKind(task'[t].outcome)
           /\ oAuthToken' = oAuthToken]_vars

(* C6: the stored refresh secret of a user changes only in the write of a *)
(* token response that carries a refresh secret, and then to that secret; *)
(* a response without one leaves it as it was (refresh and repeated       *)
(* authorization alike).                                                  *)
C6_RefreshSecretKept ==
    [][\A u \in Users :
        (oAuthToken[u] # None /\ oAuthToken'[u] # oAuthToken[u])
        => /\ oAuthToken'[u] # None
           /\ \E t \in Tasks :
                /\ task[t].userId = u /\ task[t].pc \in {"update", "tokenUpsert"} /\ Moves(t)
                /\ IF task[t].tokens.refresh_token = EmptyString
                   THEN oAuthToken'[u].refreshToken = oAuthToken[u].refreshToken
                   ELSE decrypt(oAuthToken'[u].refreshToken)
                            = Returned(task[t].tokens.refresh_token)]_vars

C6_Witness ==
    \E u \in Users :
        /\ oAuthToken[u] # None
        /\ decrypt(oAuthToken[u].accessToken) = Returned(<<u, 2>>)
        /\ decrypt(oAuthToken[u].refreshToken) = Returned(<<u, 3>>)

(* C7: a successful refresh exchange writes the new access secret,        *)
(* encrypted, and the new expiry (the provider's, or the time of the      *)
(* response + 1 hour when it gives none) and hands over that same secret. *)
C7_RefreshPersists ==
    [][\A t \in Tasks :
        /\ (task[t].pc = "refreshAccessToken" /\ task'[t].pc = "update")
           => /\ task'[t].tokens.access_token # EmptyString
              /\ task'[t].data.accessTokenExpiresAt =
                    IF task'[t].tokens.expiry_date # 0
                    THEN task'[t].tokens.expiry_date ELSE now + HOUR_MS
        /\ (task[t].pc = "update" /\ Moves(t))
           => /\ decrypt(oAuthToken'[task[t].userId].accessToken)
                    = Returned(task[t].tokens.access_token)
              /\ oAuthToken'[task[t].userId].accessTokenExpiresAt
                    = task[t].data.accessTokenExpiresAt
              /\ HandsOver(t, task[t].tokens.access_token)]_vars

C7_Witness ==
    \E t \in Tasks :
        /\ task[t].pc = "done" /\ task[t].op = "getValidAccessToken"
        /\ task[t].outcome = Returned(<<task[t].userId, 2>>)
        /\ decrypt(Row(t).accessToken) = Returned(<<task[t].userId, 2>>)
        /\ Row(t).accessTokenExpiresAt = now + HOUR_MS

(* C8: a refresh exchange that fails (rejected, or no access secret in    *)
(* the response) fails the call, and no step of the call up to and        *)
(* including that failure writes the credential store.                    *)
C8_FailedRefreshKeepsStore ==
    [][\A t \in Tasks :
        /\ (task[t].pc \in {"findUnique", "refreshAccessToken"} /\ Moves(t))
           => oAuthToken' = oAuthToken
        /\ (task[t].pc = "refreshAccessToken" /\ Moves(t) /\ task'[t].pc # "update")
           => /\ task'[t].pc = "failed"
              /\ ~task'[t].outcome.ok]_vars

C8_Witness ==
    \E t \in Tasks :
        /\ task[t].pc = "failed" /\ task[t].op = "getValidAccessToken"
        /\ task[t].outcome.message = "Failed to refresh access token"
        /\ Row(t) \in AuthorizedRows(task[t].userId)

(* C9: with no credential record the call fails with NotAuthorized, also  *)
(* when it is made inside a provider operation.                           *)
C9_NoCredentialNotAuthorized ==
    \A t \in Tasks :
        (task[t].pc = "failed" /\ task[t].op \in TokenOps /\ Row(t) = None)
        => IsUnauthorizedKind(task[t].outcome)

(* C10: a call in flight always settles, whatever refreshes of the user   *)
(* have settled before it or are in flight beside it.                     *)
C10_RefreshNeverBlocks ==
    \A t \in Tasks :
        (task[t].op \in TokenOps /\ ~Settled(t)) ~> Settled(t)

C10_Witness ==
    \E t \in Tasks :
        /\ task[t].pc = "refreshAccessToken"
        /\ oauth2Credentials.refresh_token = <<task[t].userId, 4>>
        /\ \E s \in Tasks \ {t} : Settled(s) /\ task[s].op \in TokenOps

(* C12: for every secret string s, the empty string included, decrypt of *)
(* encrypt(s) returns s.                                                 *)
C12_RoundTrip ==
    sealing.pc = "opened" => sealing.opened = Returned(sealing.text)

(* The provider response an error carries: only a provider error has one *)
HasResponse(error, status) == error.kind = "GaxiosError" /\ error.status = status

(* C17: the classifier returns an ApiError for every input: 429           *)
(* (QuotaExceeded) for a 403 response with reason quotaExceeded, 403      *)
(* (PermissionDenied) for a 403 response with reason forbidden, and 500   *)
(* (UpstreamError) for everything else: another status, a 403 with        *)
(* another or no reason, null, an error without response.                 *)
C17_ClassifierTotal ==
    classifying.result # None =>
        /\ classifying.result.kind = "ApiError"
        /\ classifying.result.status =
              IF HasResponse(classifying.error, 403) /\ classifying.error.reason = "quotaExceeded"
              THEN 429
              ELSE IF HasResponse(classifying.error, 403) /\ classifying.error.reason = "forbidden"
              THEN 403
              ELSE 500

C17_Witness ==
    /\ classifying.error = Thrown("GaxiosError", 403, "notFound", "")
    /\ classifying.result = ApiError(500, "An error occurred with the YouTube API")

(* C18: a provider 404 response is classified ResourceNotFound (404) and *)
(* a provider 401 response ReauthorizationRequired (401), not the        *)
(* generic upstream error.                                               *)
C18_NotFoundAndUnauthorized ==
    classifying.result # None =>
        /\ HasResponse(classifying.error, 404) => classifying.result.status = 404
        /\ HasResponse(classifying.error, 401) => classifying.result.status = 401

(* ------------------------------ session -------------------------------- *)
Arrives(t) == task[t].pc = "idle" /\ task'[t].op = "request"
WellSigned(token) == token.signature = Sign(token.claims, JWT_SECRET)
Identity(claims) == [id |-> claims.userId, email |-> claims.email, googleId |-> claims.googleId]

(* C13: authenticate rejects a correctly signed token whose expiry has    *)
(* elapsed as 'Token expired' and a token whose signature does not match  *)
(* as 'Invalid token'; an expired token is never reported as invalid.     *)
C13_FailuresDistinguished ==
    [][\A t \in SessionTasks :
        (Arrives(t) /\ Authenticates(task'[t].route) /\ task'[t].token # None)
        => /\ (WellSigned(task'[t].token) /\ now \div 1000 >= task'[t].token.claims.exp)
                 => /\ task'[t].pc = "failed"
                    /\ task'[t].outcome = ApiError(401, "Token expired")
           /\ ~WellSigned(task'[t].token)
                 => /\ task'[t].pc = "failed"
                    /\ task'[t].outcome = ApiError(401, "Invalid token")]_vars

(* C14: a request presenting the token generateToken has just issued for  *)
(* a stored user passes verification, and when the user lookup resolves   *)
(* the handler is given exactly the user id, email and subject id that    *)
(* were put in the token.                                                 *)
C14_IssueVerifyIdentity ==
    [][\A t \in SessionTasks, u \in SessionUsers :
        /\ ( /\ Arrives(t) /\ Authenticates(task'[t].route)
             /\ user[u] # None /\ task'[t].token = generateToken(user[u], now) )
           => /\ task'[t].pc = "findUser"
              /\ Identity(task'[t].decoded) = Identity(task'[t].token.claims)
        /\ ( /\ task[t].pc = "findUser" /\ Moves(t)
             /\ user[u] # None
             /\ \E i \in IssueInstants(now) : task[t].token = generateToken(user[u], i) )
           => /\ task'[t].pc = "handler"
              /\ task'[t].reqUser = Identity(task[t].token.claims)
              /\ task'[t].reqUser = [id |-> user[u].id, email |-> user[u].email,
                                     googleId |-> user[u].googleId]]_vars

C14_Witness ==
    \E t \in SessionTasks :
        /\ task[t].pc = "done" /\ task[t].route = "/api/auth/verify"
        /\ task[t].token = generateToken(ProfileRow(2), now)
        /\ task[t].outcome = Returned([id |-> 2, email |-> 12, googleId |-> 22])

(* C15: when the user id of a verified (correctly signed, unexpired)      *)
(* token has no row in the User table, authenticate passes ApiError 401   *)
(* to next and the request ends without its handler running.              *)
C15_MissingUserNotAuthorized ==
    [][\A t \in SessionTasks :
        /\ (task[t].pc = "findUser" /\ Moves(t) /\ FindUser(task[t].decoded.userId) = None)
           => /\ task'[t].pc = "failed"
              /\ IsUnauthorizedKind(task'[t].outcome)
        /\ (task[t].pc = "failed" /\ task[t].op = "request")
           => task'[t].pc \in {"failed", "idle"}]_vars

C15_Witness ==
    \E t \in SessionTasks :
        /\ task[t].pc = "failed"
        /\ task[t].outcome = ApiError(401, "User not found")
        /\ task[t].token = generateToken(ProfileRow(1), now)
        /\ user[1] = None

(* The routes the gate is stated for: /me, /logout, /verify and the      *)
(* video, comment, note, AI and event routers                            *)
GatedRoutes ==
    {"/api/auth/me", "/api/auth/logout", "/api/auth/verify",
     "/api/videos", "/api/comments", "/api/notes", "/api/ai", "/api/events"}

(* C16: the handler of a gated route runs only after authenticate has    *)
(* looked the user up and set req.user, and a request without token on   *)
(* such a route is rejected with 401 on arrival, before any handler.     *)
C16_AuthenticateGates ==
    [][\A t \in SessionTasks :
        /\ (task'[t].route \in GatedRoutes /\ task'[t].pc = "handler")
           => /\ task[t].pc \in {"findUser", "handler"}
              /\ task'[t].reqUser # None
              /\ FindUser(task'[t].reqUser.id) # None
        /\ (task'[t].route \in GatedRoutes /\ task'[t].pc = "done")
           => task[t].pc \in {"handler", "done"}
        /\ (Arrives(t) /\ task'[t].route \in GatedRoutes /\ task'[t].token = None)
           => /\ task'[t].pc = "failed"
              /\ IsUnauthorizedKind(task'[t].outcome)]_vars

C16_Witness ==
    \E t \in SessionTasks :
        /\ task[t].pc = "failed" /\ task[t].route = "/api/auth/logout"
        /\ task[t].token = None
        /\ task[t].outcome = ApiError(401, "Authentication required")

(* ------------------------- provider operations ------------------------- *)
OwnershipDenied == ApiError(403, "You can only delete your own comments")
(* What the catch of an operation makes of a rejected provider call *)
ClassifiedRejections == {handleYouTubeQuotaError(e) : e \in ProviderErrors}

(* C19: deleteComment on a comment whose author channel differs from the *)
(* caller's channel fails with ApiError 403 (with the classified provider *)
(* error when the channel lookup itself is rejected); comments.delete is  *)
(* awaited, and a comment_deleted event written, only for a comment whose *)
(* author channel equals the caller's.                                    *)
C19_ForeignCommentNotDeleted ==
    [][\A t \in OpsTasks :
        /\ (task'[t].pc \in {"commentsDelete", "logDelete"})
           => task'[t].author = task'[t].channelId
        /\ (task[t].pc = "ownChannel" /\ Moves(t) /\ task'[t].pc # "commentsDelete")
           => /\ task'[t].pc = "failed"
              /\ task'[t].outcome \in {OwnershipDenied} \cup ClassifiedRejections
        /\ ( /\ task[t].pc = "ownChannel" /\ Moves(t)
             /\ task[t].author \notin {0, task[t].userId} )
           => task'[t].pc = "failed"
        /\ (eventLog'["comment_deleted"] # eventLog["comment_deleted"])
           => /\ task[t].pc = "logDelete"
              /\ task[t].author = task[t].channelId]_vars

C19_Witness ==
    \E t \in OpsTasks :
        /\ task[t].pc = "failed" /\ task[t].op = "deleteComment"
        /\ task[t].outcome = OwnershipDenied
        /\ eventLog["comment_deleted"][task[t].userId] = 0

(* C20: a provider operation that returns has written exactly one audit  *)
(* event since it began, and one that throws has written none.            *)
C20_OneEventPerOperation ==
    [][\A t \in OpsTasks :
        (task[t].op \in ProviderOps /\ ~Settled(t) /\ Settled(t)')
        => EventCount(eventLog', task[t].userId) - task[t].logged
              = IF task'[t].pc = "done" THEN 1 ELSE 0]_vars

(* ------------------------------ two users ------------------------------ *)
(* C11: whatever the interleaving of the callbacks and token calls of    *)
(* two users, the channel id stored for a user is that user's own (or    *)
(* none) and the stored access and refresh secrets are secrets issued to *)
(* that user.                                                            *)
C11_NoCrossUserInterference ==
    \A u \in CrossUsers :
        /\ user[u] # None => user[u].channelId \in {0, u}
        /\ oAuthToken[u] # None =>
              /\ decrypt(oAuthToken[u].accessToken).ok
                    => Owner(decrypt(oAuthToken[u].accessToken).value) = u
              /\ decrypt(oAuthToken[u].refreshToken).ok
                    => Owner(decrypt(oAuthToken[u].refreshToken).value) = u

(* --------------------------- deleteComment ----------------------------- *)
(* C28: comments.delete is awaited only when the channel lookup returned *)
(* a channel id and that id equals the author channel id of the comment; *)
(* with no channel returned and no author on the comment it is not.      *)
C28_DeleteOnlyWithObtainedChannel ==
    [][\A t \in OpsTasks :
        (task[t].pc = "ownChannel" /\ task'[t].pc = "commentsDelete")
        => /\ task'[t].channelId # 0
           /\ task'[t].author = task'[t].channelId]_vars

(* ------------------------------- logout -------------------------------- *)
(* C22: when a logout of a user has returned, whether revokeToken        *)
(* resolved or rejected, the user has no row in the credential table.    *)
C22_LogoutDeletesCredential ==
    [][\A t \in SessionTasks :
        ( /\ task[t].pc \in {"logoutFind", "revokeToken", "logLogout"}
          /\ task'[t].pc = "done" )
        => oAuthToken'[task[t].userId] = None]_vars

(* C25: once a logout of a user has completed, a request carrying a      *)
(* correctly signed, unexpired session token of that user still passes   *)
(* jwt.verify on arrival, and while the user's row exists its lookup     *)
(* hands the handler that user's identity.                               *)
C25_SessionSurvivesLogout ==
    [][\A t \in SessionTasks, u \in SessionUsers :
        /\ ( /\ Arrives(t) /\ Authenticates(task'[t].route)
             /\ eventLog["logout"][u] > 0
             /\ task'[t].token # None
             /\ WellSigned(task'[t].token)
             /\ task'[t].token.claims.userId = u
             /\ now \div 1000 < task'[t].token.claims.exp )
           => task'[t].pc = "findUser"
        /\ ( /\ task[t].pc = "findUser" /\ Moves(t)
             /\ eventLog["logout"][u] > 0
             /\ task[t].decoded.userId = u
             /\ user[u] # None )
           => /\ task'[t].pc = "handler"
              /\ task'[t].reqUser = Identity(task[t].token.claims)]_vars

C25_Witness ==
    \E t \in SessionTasks :
        /\ task[t].pc = "done" /\ task[t].route = "/api/auth/me"
        /\ task[t].token = generateToken(ProfileRow(1), 0)
        /\ task[t].outcome = Returned([id |-> 1, email |-> 11, googleId |-> 21])
        /\ eventLog["logout"][1] = 1

(* ---------------------------- handleCallback --------------------------- *)
NoIdentity == Thrown("Error", 0, "", "Failed to get user information from Google")

(* C23: while handleCallback awaits the code-for-token exchange or the   *)
(* identity lookup it writes nothing, and when either fails (the         *)
(* identity response without id or email included) the call fails with   *)
(* an error, so no session token, and the User table, the credential     *)
(* table and the audit log are as they were.                             *)
C23_FailedExchangeChangesNothing ==
    [][\A t \in Tasks :
        /\ (task[t].pc \in {"getToken", "userinfo"} /\ Moves(t))
           => /\ user' = user /\ oAuthToken' = oAuthToken /\ eventLog' = eventLog
              /\ task'[t].pc \in {"userinfo", "channels", "failed"}
        /\ (task[t].pc \in {"getToken", "userinfo"} /\ task'[t].pc = "failed")
           => /\ ~task'[t].outcome.ok
              /\ task'[t].outcome \in TokenEndpointErrors \cup UserinfoErrors \cup {NoIdentity}
        /\ (task[t].op = "handleCallback" /\ task[t].pc = "failed")
           => task'[t].pc \in {"failed", "idle"}]_vars

C23_Witness ==
    \E t \in Tasks :
        /\ task[t].pc = "failed" /\ task[t].op = "handleCallback"
        /\ task[t].outcome = NoIdentity
        /\ \A u \in Users : user[u] = None /\ oAuthToken[u] = None /\ eventLog["login"][u] = 0

(* C26: under any interleaving of refreshes and authorizations, a write  *)
(* to a user's credential row stores the access secret and the expiry of *)
(* one token response together: the response held by the call that       *)
(* writes, whose expiry is the one the response carries when it carries  *)
(* one.                                                                  *)
C26_SecretAndExpiryFromOneResponse ==
    [][\A u \in Users :
        oAuthToken'[u] # oAuthToken[u]
        => \E t \in Tasks :
              /\ task[t].userId = u
              /\ task[t].pc \in {"update", "tokenUpsert"}
              /\ Moves(t)
              /\ decrypt(oAuthToken'[u].accessToken) = Returned(task[t].tokens.access_token)
              /\ oAuthToken'[u].accessTokenExpiresAt = task[t].data.accessTokenExpiresAt
              /\ task[t].tokens.expiry_date # 0
                    => oAuthToken'[u].accessTokenExpiresAt = task[t].tokens.expiry_date]_vars

C26_Witness ==
    \E t \in Tasks :
        /\ task[t].pc = "done" /\ task[t].op = "getValidAccessToken"
        /\ eventLog["login"][task[t].userId] = 1
        /\ task[t].outcome.value \in AccessSecrets(task[t].userId)
        /\ decrypt(oAuthToken[task[t].userId].accessToken) = task[t].outcome
        /\ oAuthToken[task[t].userId].accessTokenExpiresAt = now + BUFFER_MS - 1

(* --------------------------- failing writes ---------------------------- *)
(* What the caller of EventService.log goes on to once log has returned *)
AfterLogged(tk) ==
    IF tk.pc = "logFetch" THEN Return(tk, <<tk.userId>>)
    ELSE IF tk.pc = "logLogin" THEN Return(tk, <<tk.userId, tk.googleId>>)
    ELSE IF tk.pc = "logUpdate" THEN [tk EXCEPT !.pc = "findUnique", !.inner = TRUE]
    ELSE IF tk.pc = "logLogout" THEN [tk EXCEPT !.pc = "done", !.outcome = Returned(LogoutSuccess)]
    ELSE Return(tk, << >>)

(* C21: when the operation that awaits EventService.log goes on, whether *)
(* the audit row was written or the write failed, it has not failed, it  *)
(* goes on exactly as after a written row (same result returned), and no *)
(* table other than the audit log has changed.                           *)
C21_AuditFailureHarmless ==
    [][\A t \in OpsTasks :
        (task[t].pc \in LogPcs /\ Moves(t))
        => /\ task'[t].pc # "failed"
           /\ task'[t] = AfterLogged(task[t])
           /\ UNCHANGED <<oAuthToken, user, video, note>>]_vars

C21_Witness ==
    \E t \in OpsTasks :
        /\ task[t].pc = "done" /\ task[t].op = "handleCallback"
        /\ task[t].outcome = Returned(<<1, 1>>)
        /\ oAuthToken[1] # None
        /\ eventLog["login"][1] = 0

(* C27: when handleCallback has returned or failed, every user with a    *)
(* User row has a credential row.                                        *)
C27_NoUserWithoutCredential ==
    [][\A t \in OpsTasks :
        (task[t].op = "handleCallback" /\ ~Settled(t) /\ Settled(t)')
        => \A u \in Users : user'[u] # None => oAuthToken'[u] # None]_vars

(* --------------------------- record identity --------------------------- *)
UserRows(table) == {g \in CrossUsers : table[g] # None}

(* C24: the user upsert of an authorization touches only the User row of *)
(* its subject, creating it when there is none and otherwise updating it *)
(* in place (profile fields), and the token upsert touches only the      *)
(* credential row of that user, creating it when there is none and       *)
(* otherwise replacing access secret, expiry and scope in place; neither *)
(* adds a row for a subject or user that already has one.                *)
C24_OneRecordPerSubject ==
    [][\A t \in Tasks :
        /\ (task[t].pc = "userUpsert" /\ Moves(t))
           => LET g == task[t].googleId
              IN  /\ user'[g] = [channelId |-> task[t].channelId]
                  /\ \A u \in CrossUsers \ {g} : user'[u] = user[u]
                  /\ Cardinality(UserRows(user'))
                        = Cardinality(UserRows(user)) + IF user[g] = None THEN 1 ELSE 0
                  /\ task'[t].userId = g
                  /\ oAuthToken' = oAuthToken
        /\ (task[t].pc = "tokenUpsert" /\ Moves(t))
           => LET u == task[t].userId
              IN  /\ u = task[t].googleId
                  /\ oAuthToken'[u] # None
                  /\ oAuthToken'[u].accessToken = task[t].data.accessToken
                  /\ oAuthToken'[u].accessTokenExpiresAt = task[t].data.accessTokenExpiresAt
                  /\ oAuthToken'[u].scope = task[t].data.scope
                  /\ \A v \in CrossUsers \ {u} : oAuthToken'[v] = oAuthToken[v]
                  /\ Cardinality(UserRows(oAuthToken'))
                        = Cardinality(UserRows(oAuthToken)) + IF oAuthToken[u] = None THEN 1 ELSE 0
                  /\ user' = user]_vars

C24_Witness ==
    \E t \in Tasks :
        /\ task[t].pc = "done" /\ task[t].op = "handleCallback"
        /\ task[t].userId = 1
        /\ eventLog["login"][1] = 2
        /\ user[2] = None /\ oAuthToken[2] = None
        /\ user[1] # None /\ oAuthToken[1] # None

(* --------------------------- the auth store ---------------------------- *)
(* C29: whenever isAuthenticated is true the store holds a token and     *)
(* localStorage holds one.                                               *)
C29_AuthenticatedHasToken ==
    useAuthStore.isAuthenticated
    => useAuthStore.token # None /\ localStorage # None

(* C30: the rejection of a getCurrentUser call sent before the latest    *)
(* setToken(t) leaves t in the store and in localStorage, and when the   *)
(* fetchUser that followed setToken(t) succeeds, with no logout and no   *)
(* redirect since, the store and localStorage hold t and isAuthenticated *)
(* is true.                                                              *)
C30_StaleFailureKeepsNewToken ==
    [][\A r \in requests, r2 \in requests :
        ( /\ r.api = "getCurrentUser" /\ r2.caller = "callback" /\ r.id < r2.id
          /\ useAuthStore.token = r2.bearer /\ localStorage = r2.bearer )
        => /\ ( /\ r.state = "sent"
                /\ [r EXCEPT !.state = "rejected"] \in requests' )
              => /\ useAuthStore'.token = r2.bearer
                 /\ localStorage' = r2.bearer
           /\ ( /\ r2.state = "sent"
                /\ [r2 EXCEPT !.state = "resolved"] \in requests' )
              => /\ useAuthStore'.token = r2.bearer
                 /\ localStorage' = r2.bearer
                 /\ useAuthStore'.isAuthenticated]_vars

====
